---- MODULE Spec2Model ----
(***************************************************************************)
(* A model of colino's ingestion pipeline: the content_cache table of      *)
(* db.py, the RSS adapter of sources/rss.py, the article scraper, the      *)
(* transcript enhancement of sources/youtube.py and the orchestrator of    *)
(* ingest_manager.py.                                                      *)
(*                                                                         *)
(* Every Python string is a sequence of tokens (a text is a sequence of    *)
(* one-character tokens, so that len() is Len; a URL or an id is a         *)
(* sequence of URL pieces, so that "x in url" is a sub-sequence test).     *)
(* Times are integers (hours).                                             *)
(*                                                                         *)
(* The callers in ingest_manager.py use the names get_recent_posts,        *)
(* save_content and get_content_by; sources/rss.py and db.py define the    *)
(* same operations as get_posts_from_feeds, save_post and get_post_by      *)
(* (main.py calls db.get_content_by(id=post_id), digest_manager.py says    *)
(* "try to find content by ID").  The model binds each call to the         *)
(* definition of db.py / rss.py.                                           *)
(***************************************************************************)
EXTENDS Integers, Sequences, FiniteSets, TLC

\* ------------------------------------------------------------------ bounds
MaxTime == 3        \* the clock runs up to MaxTime
MaxPublished == 2   \* entries published, all feeds together
MaxRuns == 2        \* ingest calls per behaviour
MaxSaves == 3       \* direct save_post calls per behaviour
MaxPasses == 2      \* transcript enhancement passes over one post
MaxExtra == 1       \* text lengths reach MinScrapeLen + 1 + MaxExtra
MaxEntries == 2     \* entries of the first feed of an adapter call
MaxKeywords == 2    \* keywords of an include or exclude list
MaxPosts == 2       \* records handed to one filter call

\* --------------------------------------------------------------- constants
MinScrapeLen == 100            \* scraper.py: if len(content) > 100

\* ------------------------------------------------------------------- texts
Rep(c, n) == [i \in 1..n |-> c]

StartsWith(s, p) == Len(p) <= Len(s) /\ SubSeq(s, 1, Len(p)) = p

\* Python's  p in s  for strings
Contains(s, p) == \E i \in 0..(Len(s) - Len(p)) : SubSeq(s, i + 1, i + Len(p)) = p

None == <<"None">>             \* Python's None where a text is expected
NoKey == <<"KeyError">>        \* a key a dict does not hold
NoDate == -1                   \* an entry without published_parsed / updated_parsed
BadDate == -2                  \* a published_parsed / updated_parsed datetime() rejects

Truthy(s) == s # None /\ s # NoKey /\ s # <<>>

RECURSIVE SeqToSet(_)
SeqToSet(s) == IF s = <<>> THEN {} ELSE {Head(s)} \cup SeqToSet(Tail(s))

RECURSIVE Flatten(_)
Flatten(ss) == IF ss = <<>> THEN <<>> ELSE Head(ss) \o Flatten(Tail(ss))

\* ------------------------------------------------------- content_cache (db)
\* metadata as the dict the caller holds: isNone is Python's None, every other
\* field is the value under that key, or NoKey.
MetaKeys == {"feed_url", "entry_title", "rss_content", "video_id", "channel_id",
             "youtube_video_id", "youtube_transcript"}

EmptyMeta ==
    [isNone |-> FALSE, feed_url |-> NoKey, entry_title |-> NoKey, rss_content |-> NoKey,
     video_id |-> NoKey, channel_id |-> NoKey, youtube_video_id |-> NoKey,
     youtube_transcript |-> NoKey]

NoneMeta == [EmptyMeta EXCEPT !.isNone = TRUE]

\* json.dumps(post_data.get('metadata', {})): the text stored in the metadata column
json_dumps(m) ==
    IF m.isNone THEN [json |-> "null", obj |-> EmptyMeta]
    ELSE [json |-> "object", obj |-> m]

\* json.loads of the stored text
json_loads(t) == IF t.json = "null" THEN NoneMeta ELSE t.obj

\* the keys save_post reads with post_data[...] and the NOT NULL columns
RequiredKeys == {"id", "source", "author_username", "content", "created_at"}

\* the row INSERT writes: fetched_at is not in the column list, so it takes
\* its DEFAULT CURRENT_TIMESTAMP
RowOf(post, now) ==
    [id |-> post.id, source |-> post.source, author_username |-> post.author_username,
     content |-> post.content, url |-> post.url, created_at |-> post.created_at,
     fetched_at |-> now,
     metadata |-> json_dumps(IF "metadata" \in post.keys THEN post.metadata ELSE EmptyMeta)]

\* a plausible slip: the old row is deleted before the insert is tried
save_post_delete_first(rows, post, now, ioOk) ==
    IF ~("id" \in post.keys) THEN [ok |-> FALSE, rows |-> rows]
    ELSE IF ~ioOk \/ ~(RequiredKeys \subseteq post.keys)
    THEN [ok |-> FALSE, rows |-> {r \in rows : r.id # post.id}]
    ELSE [ok |-> TRUE,
          rows |-> {r \in rows : r.id # post.id} \cup {RowOf(post, now)}]

\* a plausible slip: a plain INSERT that leaves the old row in place
save_post_noreplace(rows, post, now, ioOk) ==
    IF ~ioOk \/ ~(RequiredKeys \subseteq post.keys)
    THEN [ok |-> FALSE, rows |-> rows]
    ELSE [ok |-> TRUE, rows |-> rows \cup {RowOf(post, now)}]

\* Database.save_post: INSERT OR REPLACE deletes the row with the same primary
\* key and inserts the new one; any exception is caught and reported as False.
save_post(rows, post, now, ioOk) ==
    IF ~ioOk \/ ~(RequiredKeys \subseteq post.keys)
    THEN [ok |-> FALSE, rows |-> rows]
    ELSE [ok |-> TRUE,
          rows |-> {r \in rows : r.id # post.id} \cup {RowOf(post, now)}]

\* SELECT * FROM content_cache WHERE id = ?
SelectById(rows, id) == {r \in rows : r.id = id}

\* Database.get_post_by: None unless exactly one row matches
Found(rows, id) == Cardinality(SelectById(rows, id)) = 1

get_post_by(rows, id) ==
    LET r == CHOOSE x \in SelectById(rows, id) : TRUE
    IN  [r EXCEPT !.metadata = json_loads(r.metadata)]

\* A timestamp handed to a query: whole seconds and microseconds.  The
\* created_at of the rows of the model are whole seconds.
Timestamp(at, us) == [at |-> at, us |-> us]

\* SQLite's datetime(x) of the text of a timestamp: 'YYYY-MM-DD HH:MM:SS', the
\* fraction of the second dropped
sqlite_datetime(ts) == ts.at

\* ORDER BY created_at DESC: the orders SQLite may return the selected rows in
Orderings(sel) ==
    {s \in [1..Cardinality(sel) -> sel] :
        /\ \A i, j \in DOMAIN s : i # j => s[i] # s[j]
        /\ \A i, j \in DOMAIN s : i < j => s[i].created_at >= s[j].created_at}

\* Database.get_posts_since: SELECT * FROM content_cache
\* WHERE datetime(created_at) >= datetime(?) [AND source = ?]
\* ORDER BY created_at DESC, the metadata of each row parsed; source "" is
\* no source (if source:).  The set of the lists the query may return.
get_posts_since(rows, since, source) ==
    LET sel == {r \in rows : /\ sqlite_datetime(Timestamp(r.created_at, 0))
                                   >= sqlite_datetime(since)
                              /\ source # "" => r.source = source}
    IN  {[i \in DOMAIN s |-> [s[i] EXCEPT !.metadata = json_loads(@)]] : s \in Orderings(sel)}

\* ------------------------------------------------------------ feed entries
\* A parsed feedparser entry.  has_id / has_link say whether the key exists;
\* published / updated are the parsed dates or NoDate; content is the
\* structured content field, summary the summary field (None when absent).
Short == <<"h", "i">>
LongBody == Rep("b", MinScrapeLen + 1)

Entry(hid, id, hlink, link, pub, upd, title, content, summary) ==
    [has_id |-> hid, id |-> id, has_link |-> hlink, link |-> link,
     published |-> pub, updated |-> upd, title |-> title,
     content |-> content, summary |-> summary]

UrlA1 == <<"a.com/", "1">>
UrlA2 == <<"a.com/", "2">>
UrlB1 == <<"b.com/", "1">>
UrlN1 == <<"a.com/", "n">>
UrlS1 == <<"yt.com", "/shorts/", "s1">>
UrlV1 == <<"youtube.com/watch?v=", "v1">>

\* no GUID: the id is the link
EntryA1 == Entry(FALSE, <<>>, TRUE, UrlA1, 1, NoDate, <<"A", "1">>, None, Short)
EntryA2 == Entry(FALSE, <<>>, TRUE, UrlA2, 2, NoDate, <<"A", "2">>, None, Short)
\* a GUID that is not the link, and a body longer than the scrape threshold
EntryG1 == Entry(TRUE, <<"guid-1">>, TRUE, UrlB1, 1, NoDate, <<"G", "1">>, LongBody, Short)
\* no published date, only an updated date one hour earlier than A1
EntryU0 == Entry(FALSE, <<>>, TRUE, <<"a.com/", "0">>, NoDate, 0, <<"U", "0">>, None, Short)
\* no date at all
EntryN1 == Entry(FALSE, <<>>, TRUE, UrlN1, NoDate, NoDate, <<"N", "1">>, None, None)
\* a short-form video
EntryS1 == Entry(FALSE, <<>>, TRUE, UrlS1, 1, NoDate, <<"S", "1">>, None, Short)
\* neither id nor link
EntryX1 == Entry(FALSE, <<>>, FALSE, <<>>, 1, NoDate, <<"X", "1">>, None, Short)
\* an entry of a YouTube channel feed: the id is yt:video:<id>, the link the watch URL
EntryV1 == Entry(TRUE, <<"yt:video:", "v1">>, TRUE, UrlV1, 1, NoDate, <<"V", "1">>, None, Short)

RssEntries == {EntryA1, EntryA2, EntryG1, EntryS1}
ChannelEntries == {EntryV1}

\* Config.RSS_FEEDS, and the feed of the one channel a user may subscribe to
RSS_FEEDS == <<"f1", "f2">>
ChannelId == <<"ch1">>
ChannelFeed == "yt-feed-ch1"
FeedUrls == SeqToSet(RSS_FEEDS) \cup {ChannelFeed}

\* --------------------------------------------------------------- scraper.py
\* What a scrape request meets: None when the request or the extraction raises,
\* otherwise the text readability extracts from the page.
Pages ==
    {None} \cup {Rep("s", n) : n \in {0, MinScrapeLen}
                                   \cup (MinScrapeLen + 1 .. MinScrapeLen + 1 + MaxExtra)}

\* a plausible slip: no minimum length
scrape_article_content_nomin(url, page) ==
    IF page = None \/ url = <<>> THEN None ELSE page

\* ArticleScraper.scrape_article_content: the text if it is longer than 100
\* characters, None otherwise and on every exception (a request for the
\* empty URL raises)
scrape_article_content(url, page) ==
    IF page = None \/ url = <<>> THEN None
    ELSE IF Len(page) > MinScrapeLen THEN page
    ELSE None

\* ----------------------------------------------------------- sources/rss.py
FullContentDelim == <<"\nFull Content:\n">>

\* RSSSource._parse_entry_date
parse_entry_date(entry) ==
    IF entry.published # NoDate THEN entry.published
    ELSE IF entry.updated # NoDate THEN entry.updated
    ELSE NoDate

\* datetime(*entry.published_parsed[:6]) raises ValueError on fields out of
\* range (a second of 60, a year of 0); the first date that is there is used
date_raises(entry) ==
    \/ entry.published = BadDate
    \/ entry.published = NoDate /\ entry.updated = BadDate

\* a plausible slip: the link is preferred to the feed's identifier
post_id_of_link(entry) ==
    IF entry.has_link THEN entry.link
    ELSE IF entry.has_id THEN entry.id
    ELSE <<>>

\* entry.get('id', entry.get('link', ''))
post_id_of(entry) ==
    IF entry.has_id THEN entry.id
    ELSE IF entry.has_link THEN entry.link
    ELSE <<>>

\* entry.get('link', '')
article_url_of(entry) == IF entry.has_link THEN entry.link ELSE <<>>

\* RSSSource._extract_rss_content (description is feedparser's alias of summary)
extract_rss_content(entry) ==
    IF entry.content # None /\ entry.content # <<>> THEN entry.content
    ELSE IF entry.summary # None THEN entry.summary
    ELSE <<>>

\* a plausible slip: <= instead of <
TooOld_leq(since_time, pub_date) == pub_date # NoDate /\ pub_date <= since_time

\* a plausible slip: an entry without a date counts as older than any since_time
TooOld_undated(since_time, pub_date) == since_time # NoDate /\ pub_date < since_time

\* the three checks of RSSSource._should_skip_post, in the order of the code
TooOld(since_time, pub_date) == pub_date # NoDate /\ pub_date < since_time

\* if self.db and self.db.get_content_by(url): the store is asked for the URL
CacheKey(url, post_id) == url

Cached(rows, hasDb, url, post_id) == hasDb /\ Found(rows, CacheKey(url, post_id))

IsShorts(url) == url # <<>> /\ Contains(url, <<"/shorts/">>)

should_skip_post(rows, hasDb, url, post_id, since_time, pub_date) ==
    \/ TooOld(since_time, pub_date)
    \/ Cached(rows, hasDb, url, post_id)
    \/ IsShorts(url)

\* a plausible slip: full_content = scraped_content or '' when nothing is appended
enhance_content_lost(rss_content, scraped) ==
    IF scraped # None /\ scraped # <<>> /\ Len(scraped) > Len(rss_content)
    THEN rss_content \o FullContentDelim \o scraped
    ELSE IF scraped = None THEN <<>> ELSE rss_content

\* a plausible slip: the scraped text replaces the body
enhance_content_replace(rss_content, scraped) ==
    IF scraped # None /\ scraped # <<>> /\ Len(scraped) > Len(rss_content)
    THEN scraped
    ELSE rss_content

\* a plausible slip: >= instead of >
enhance_content_geq(rss_content, scraped) ==
    IF scraped # None /\ scraped # <<>> /\ Len(scraped) >= Len(rss_content)
    THEN rss_content \o FullContentDelim \o scraped
    ELSE rss_content

\* RSSSource._enhance_content, given what scrape_article_content returned
enhance_content(rss_content, scraped) ==
    IF scraped # None /\ scraped # <<>> /\ Len(scraped) > Len(rss_content)
    THEN rss_content \o FullContentDelim \o scraped
    ELSE rss_content

AllKeys == RequiredKeys \cup {"author_display_name", "url", "like_count", "reply_count",
                              "metadata"}

\* RSSSource._process_rss_entry: what one entry does.  raised: the entry made
\* it raise (in _parse_entry_date, its first statement).  post is <<>> when the
\* entry yields nothing, lookups are the keys the store was asked for (with the
\* id of the entry), scrapes the scrape requests made (stored: the store held
\* the id of the entry then).
process_rss_entry(entry, feed_url, since_time, now, rows, hasDb, page) ==
    LET pub_date == parse_entry_date(entry)
        post_id == post_id_of(entry)
        article_url == article_url_of(entry)
        asked == post_id # <<>> /\ ~TooOld(since_time, pub_date) /\ hasDb
        lookups == IF asked THEN <<[key |-> CacheKey(article_url, post_id), id |-> post_id]>>
                   ELSE <<>>
    IN  IF date_raises(entry)
        THEN [post |-> <<>>, lookups |-> <<>>, scrapes |-> <<>>, raised |-> TRUE]
        ELSE IF post_id = <<>> \/ should_skip_post(rows, hasDb, article_url, post_id,
                                                   since_time, pub_date)
        THEN [post |-> <<>>, lookups |-> lookups, scrapes |-> <<>>, raised |-> FALSE]
        ELSE LET rss_content == extract_rss_content(entry)
                 scraped == scrape_article_content(article_url, page)
                 full_content == enhance_content(rss_content, scraped)
             IN  [post |-> <<[keys |-> AllKeys,
                              id |-> post_id, source |-> "rss",
                              author_username |-> feed_url,   \* the feed's title
                              content |-> full_content, url |-> article_url,
                              created_at |-> IF pub_date # NoDate THEN pub_date ELSE now,
                              metadata |-> [EmptyMeta EXCEPT
                                              !.feed_url = <<feed_url>>,
                                              !.entry_title = entry.title,
                                              !.rss_content = rss_content]]>>,
                  lookups |-> lookups,
                  scrapes |-> <<[url |-> article_url, id |-> post_id,
                                 stored |-> Found(rows, post_id)]>>,
                  raised |-> FALSE]

\* a plausible slip: a sort that puts a post before the posts of the same date
InsertDesc_unstable(sorted, x) ==
    LET k == Cardinality({i \in 1..Len(sorted) : sorted[i].created_at > x.created_at})
    IN  SubSeq(sorted, 1, k) \o <<x>> \o SubSeq(sorted, k + 1, Len(sorted))

\* all_posts.sort(key=created_at, reverse=True): a stable sort, newest first
InsertDesc(sorted, x) ==
    LET k == Cardinality({i \in 1..Len(sorted) : sorted[i].created_at >= x.created_at})
    IN  SubSeq(sorted, 1, k) \o <<x>> \o SubSeq(sorted, k + 1, Len(sorted))

RECURSIVE SortDesc(_, _)
SortDesc(done, todo) ==
    IF todo = <<>> THEN done ELSE SortDesc(InsertDesc(done, Head(todo)), Tail(todo))

\* all_posts of get_posts_from_feeds, sorted, and the requests the entries made
AllPosts(all) ==
    [posts |-> SortDesc(<<>>, Flatten([k \in 1..Len(all) |-> all[k].post])),
     lookups |-> Flatten([k \in 1..Len(all) |-> all[k].lookups]),
     scrapes |-> Flatten([k \in 1..Len(all) |-> all[k].scrapes])]

\* RSSSource.parse_feed: None when the request or the parsing raises (a feed
\* in down, a URL nothing is served at); a feed whose XML is malformed (a feed in bozo) only gets a
\* warning, and the entries feedparser recovered from it are returned.
parse_feed(feed_url, feeds, down, bozo) ==
    IF feed_url \in down \/ feed_url \notin DOMAIN feeds
    THEN [isNone |-> TRUE, entries |-> <<>>, warned |-> <<>>]
    ELSE [isNone |-> FALSE, entries |-> feeds[feed_url],
          warned |-> IF feed_url \in bozo THEN <<feed_url>> ELSE <<>>]

\* the entries the for entry in feed_data['entries'] loop reaches: the
\* try/except encloses the loop, so the first entry that raises ends it
UpToRaise(entries) ==
    IF \E i \in 1..Len(entries) : date_raises(entries[i])
    THEN SubSeq(entries, 1, CHOOSE i \in 1..Len(entries) :
                               /\ date_raises(entries[i])
                               /\ \A j \in 1..(i - 1) : ~date_raises(entries[j]))
    ELSE entries

\* a plausible slip: the first feed that fails ends the loop (break for continue)
get_posts_from_feeds_abort(feed_urls, feeds, down, bozo, since_time, now, rows, hasDb, page) ==
    LET upTo == IF \E k \in 1..Len(feed_urls) : feed_urls[k] \in down
                THEN (CHOOSE k \in 1..Len(feed_urls) :
                        /\ feed_urls[k] \in down
                        /\ \A j \in 1..(k - 1) : feed_urls[j] \notin down) - 1
                ELSE Len(feed_urls)
        perFeed(f) ==
            [i \in 1..Len(UpToRaise(parse_feed(f, feeds, down, bozo).entries)) |->
                process_rss_entry(parse_feed(f, feeds, down, bozo).entries[i], f,
                                  since_time, now, rows, hasDb, page)]
    IN  AllPosts(Flatten([k \in 1..upTo |-> perFeed(feed_urls[k])]))
        @@ [warned |-> <<>>]

\* RSSSource.get_posts_from_feeds: every entry of every feed that parses, in
\* feed order; the store is only read here, so each entry sees the store as it
\* was when the call began.  warned: the feeds logged as having parsing issues.
get_posts_from_feeds(feed_urls, feeds, down, bozo, since_time, now, rows, hasDb, page) ==
    LET perFeed(f) ==
            [i \in 1..Len(UpToRaise(parse_feed(f, feeds, down, bozo).entries)) |->
                process_rss_entry(parse_feed(f, feeds, down, bozo).entries[i], f,
                                  since_time, now, rows, hasDb, page)]
    IN  AllPosts(Flatten([k \in 1..Len(feed_urls) |-> perFeed(feed_urls[k])]))
        @@ [warned |-> Flatten([k \in 1..Len(feed_urls) |->
                                   parse_feed(feed_urls[k], feeds, down, bozo).warned])]

\* -------------------------------------------------------- keyword filtering
\* A configured keyword that is not a string (YAML "- 2024"): .strip() raises.
NonStr == <<"<int>">>

LowerMap == [c \in {"A", "G", "H", "I", "N", "S", "U", "V", "X"} |->
               CASE c = "A" -> "a" [] c = "G" -> "g" [] c = "H" -> "h" [] c = "I" -> "i"
                 [] c = "N" -> "n" [] c = "S" -> "s" [] c = "U" -> "u" [] c = "V" -> "v"
                 [] c = "X" -> "x"]

\* str.lower()
Lower(t) == [i \in 1..Len(t) |-> IF t[i] \in DOMAIN LowerMap THEN LowerMap[t[i]] ELSE t[i]]

\* not keyword.strip()
Blank(k) == \A i \in 1..Len(k) : k[i] = " "

\* a plausible slip: the keywords are not tested with strip()
RECURSIVE AnyKeyword_unstripped(_, _)
AnyKeyword_unstripped(kws, content_text) ==
    IF kws = <<>> THEN "false"
    ELSE IF Head(kws) = NonStr THEN "raise"
    ELSE IF Contains(content_text, Lower(Head(kws))) THEN "true"
    ELSE AnyKeyword_unstripped(Tail(kws), content_text)

\* any(keyword.lower() in content_text for keyword in kws if keyword.strip()):
\* "raise" when a keyword that is not a string is reached before a match
RECURSIVE AnyKeyword(_, _)
AnyKeyword(kws, content_text) ==
    IF kws = <<>> THEN "false"
    ELSE IF Head(kws) = NonStr THEN "raise"
    ELSE IF ~Blank(Head(kws)) /\ Contains(content_text, Lower(Head(kws))) THEN "true"
    ELSE AnyKeyword(Tail(kws), content_text)

\* f"{post['content']} {post.get('metadata', {}).get('entry_title', '')}".lower()
ContentText(post) ==
    Lower(post.content \o <<" ">> \o
          (IF post.metadata.entry_title = NoKey THEN <<>> ELSE post.metadata.entry_title))

\* a plausible slip: the exclude list is consulted only when no include list is
\* configured (elif for the second if)
FilterOne_elif(post, cfg) ==
    LET text == ContentText(post)
    IN  IF cfg.include # <<>>
        THEN (IF AnyKeyword(cfg.include, text) = "true" THEN "keep" ELSE "drop")
        ELSE IF cfg.exclude # <<>> /\ AnyKeyword(cfg.exclude, text) = "true" THEN "drop"
        ELSE "keep"

\* one iteration of the loop of _apply_content_filter: "keep", "drop" or "raise"
FilterOne(post, cfg) ==
    LET text == ContentText(post)
        inc == IF cfg.include # <<>> THEN AnyKeyword(cfg.include, text) ELSE "true"
        exc == IF cfg.exclude # <<>> THEN AnyKeyword(cfg.exclude, text) ELSE "false"
    IN  IF inc = "raise" THEN "raise"
        ELSE IF inc = "false" THEN "drop"
        ELSE IF exc = "raise" THEN "raise"
        ELSE IF exc = "true" THEN "drop"
        ELSE "keep"

\* IngestManager._apply_content_filter
RECURSIVE apply_content_filter(_, _)
apply_content_filter(posts, cfg) ==
    IF posts = <<>> THEN [raised |-> FALSE, posts |-> <<>>]
    ELSE LET one == FilterOne(Head(posts), cfg)
             rest == apply_content_filter(Tail(posts), cfg)
         IN  IF one = "raise" \/ rest.raised THEN [raised |-> TRUE, posts |-> <<>>]
             ELSE IF one = "keep" THEN [raised |-> FALSE, posts |-> <<Head(posts)>> \o rest.posts]
             ELSE rest

\* if Config.FILTER_KEYWORDS or Config.EXCLUDE_KEYWORDS: posts = filter(posts)
FilterIfConfigured(posts, cfg) ==
    IF cfg.include # <<>> \/ cfg.exclude # <<>>
    THEN apply_content_filter(posts, cfg)
    ELSE [raised |-> FALSE, posts |-> posts]

\* a plausible slip: the loop ends at the first save that fails
RECURSIVE SaveAll_break(_, _, _, _)
SaveAll_break(rows, posts, now, ioFail) ==
    IF posts = <<>> THEN [rows |-> rows, upserts |-> <<>>, saved |-> 0]
    ELSE LET r == save_post(rows, Head(posts), now, Head(posts).id \notin ioFail)
             rest == IF r.ok THEN SaveAll_break(r.rows, Tail(posts), now, ioFail)
                     ELSE [rows |-> rows, upserts |-> <<>>, saved |-> 0]
         IN  [rows |-> rest.rows,
              upserts |-> <<[id |-> Head(posts).id, ok |-> r.ok]>> \o rest.upserts,
              saved |-> rest.saved + (IF r.ok THEN 1 ELSE 0)]

\* saved_count = 0; for post in posts: if self.db.save_content(post): saved_count += 1
RECURSIVE SaveAll(_, _, _, _)
SaveAll(rows, posts, now, ioFail) ==
    IF posts = <<>> THEN [rows |-> rows, upserts |-> <<>>, saved |-> 0]
    ELSE LET r == save_post(rows, Head(posts), now, Head(posts).id \notin ioFail)
             rest == SaveAll(r.rows, Tail(posts), now, ioFail)
         IN  [rows |-> rest.rows,
              upserts |-> <<[id |-> Head(posts).id, ok |-> r.ok]>> \o rest.upserts,
              saved |-> rest.saved + (IF r.ok THEN 1 ELSE 0)]

\* -------------------------------------------------------- sources/youtube.py
TranscriptDelim == <<"\n\n--- YouTube Transcript ---\n">>

\* the patterns of extract_video_id, in the order the loop tries them
VideoPatterns == <<"youtube.com/watch?v=", "youtu.be/", "youtube.com/embed/", "youtube.com/v/">>

\* urlparse(url): ValueError('Invalid IPv6 URL') when the host part opens a
\* bracket it does not close
urlparse_raises(url) ==
    /\ \E i \in DOMAIN url : url[i] = "["
    /\ \A i \in DOMAIN url : url[i] # "]"

\* YouTubeSource.extract_video_id raises: nothing in it catches what urlparse
\* raises, and every pattern but "youtu.be/" has the URL parsed; "youtu.be/"
\* returns before that only when "youtube.com/watch?v=" is not in the URL too
extract_video_id_raises(url) ==
    /\ url # <<>> /\ url # None
    /\ urlparse_raises(url)
    /\ \/ \E i \in DOMAIN url : url[i] = VideoPatterns[1]
       \/ /\ \A i \in DOMAIN url : url[i] # VideoPatterns[2]
          /\ \E i \in DOMAIN url : url[i] \in {VideoPatterns[3], VideoPatterns[4]}

\* pattern in url
HasPiece(url, p) == \E i \in DOMAIN url : url[i] = p

\* s.split(stop)[0], for each of the stops in turn: s up to the first of them
UpTo(s, stops) ==
    IF \E i \in DOMAIN s : s[i] \in stops
    THEN SubSeq(s, 1, (CHOOSE i \in DOMAIN s :
                          /\ s[i] \in stops
                          /\ \A j \in 1..(i - 1) : s[j] \notin stops) - 1)
    ELSE s

\* url.split(p)[-1]
AfterLast(url, p) ==
    SubSeq(url, (CHOOSE i \in DOMAIN url :
                    url[i] = p /\ \A j \in (i + 1)..Len(url) : url[j] # p) + 1,
           Len(url))

\* urlparse(url).query: what follows the first "?" up to "#"; the pattern
\* "youtube.com/watch?v=" holds a "?" and opens the query with "v="
QueryOf(url) ==
    IF \E i \in DOMAIN url : url[i] \in {"?", VideoPatterns[1]}
    THEN (IF url[CHOOSE i \in DOMAIN url :
                    /\ url[i] \in {"?", VideoPatterns[1]}
                    /\ \A j \in 1..(i - 1) : url[j] \notin {"?", VideoPatterns[1]}] = "?"
          THEN <<>> ELSE <<"v=">>)
         \o UpTo(SubSeq(url, (CHOOSE i \in DOMAIN url :
                                 /\ url[i] \in {"?", VideoPatterns[1]}
                                 /\ \A j \in 1..(i - 1) : url[j] \notin {"?", VideoPatterns[1]})
                             + 1, Len(url)),
                 {"#"})
    ELSE <<>>

\* the places of the query where a v with a value that is not blank begins
VFields(query) ==
    {i \in DOMAIN query :
        /\ query[i] = "v="
        /\ i = 1 \/ query[i - 1] = "&"
        /\ UpTo(SubSeq(query, i + 1, Len(query)), {"&"}) # <<>>}

\* parse_qs(parsed.query)["v"][0], None when "v" is not in it
QueryV(query) ==
    IF VFields(query) = {} THEN None
    ELSE UpTo(SubSeq(query, (CHOOSE i \in VFields(query) : \A j \in VFields(query) : i <= j) + 1,
                     Len(query)),
              {"&"})

\* the body of the loop for a pattern other than "youtu.be/": the v of the
\* query, else the text after "/embed/" or "/v/" up to "?", else nothing
ParsedId(url) ==
    IF QueryV(QueryOf(url)) # None THEN QueryV(QueryOf(url))
    ELSE IF HasPiece(url, VideoPatterns[3]) THEN UpTo(AfterLast(url, VideoPatterns[3]), {"?"})
    ELSE IF HasPiece(url, VideoPatterns[4]) THEN UpTo(AfterLast(url, VideoPatterns[4]), {"?"})
    ELSE None

\* YouTubeSource.extract_video_id where it returns.  A URL is its pieces: the
\* patterns, "?", "&", "#", "v=" and the texts between them.  The first
\* pattern in the URL decides: "youtu.be/" gives the text after it up to "?"
\* or "&", the others what ParsedId gives; a pattern that gives nothing hands
\* over to the next one.
extract_video_id(url) ==
    IF url = <<>> \/ url = None THEN None
    ELSE IF HasPiece(url, VideoPatterns[1]) /\ ParsedId(url) # None THEN ParsedId(url)
    ELSE IF HasPiece(url, VideoPatterns[2]) THEN UpTo(AfterLast(url, VideoPatterns[2]), {"?", "&"})
    ELSE IF HasPiece(url, VideoPatterns[3]) \/ HasPiece(url, VideoPatterns[4]) THEN ParsedId(url)
    ELSE None

\* YouTubeSource.get_video_transcript: None when transcripts are switched off
\* (no request is made), when the request raises or when the transcript is
\* empty; tx is what the transcript API answers (None: it raises).
get_video_transcript(video_id, enabled, tx) ==
    IF ~enabled THEN None
    ELSE IF tx = None \/ tx = <<>> THEN None
    ELSE tx

TranscriptRequested(post, enabled) == Truthy(extract_video_id(post.url)) /\ enabled

\* a plausible slip: the video id is recorded before the transcript is looked at
enhance_youtube_post_tagged(post, enabled, tx) ==
    LET video_id == extract_video_id(post.url)
        transcript == IF ~Truthy(video_id) THEN None
                      ELSE get_video_transcript(video_id, enabled, tx)
    IN  IF ~Truthy(video_id) THEN post
        ELSE IF transcript = None THEN [post EXCEPT !.metadata.youtube_video_id = video_id]
        ELSE [post EXCEPT !.content = @ \o TranscriptDelim \o transcript,
                          !.metadata.youtube_video_id = video_id]

\* a plausible slip: the transcript replaces the body
enhance_youtube_post_replace(post, enabled, tx) ==
    LET video_id == extract_video_id(post.url)
        transcript == IF ~Truthy(video_id) THEN None
                      ELSE get_video_transcript(video_id, enabled, tx)
    IN  IF ~Truthy(video_id) \/ transcript = None THEN post
        ELSE [post EXCEPT !.content = transcript,
                          !.metadata.youtube_video_id = video_id]

\* YouTubeSource.enhance_youtube_post
enhance_youtube_post(post, enabled, tx) ==
    LET video_id == extract_video_id(post.url)
        transcript == IF ~Truthy(video_id) THEN None
                      ELSE get_video_transcript(video_id, enabled, tx)
    IN  IF ~Truthy(video_id) \/ transcript = None THEN post
        ELSE [post EXCEPT !.content = post.content \o TranscriptDelim \o transcript,
                          !.metadata.youtube_video_id = video_id]

\* Database.get_oauth_tokens: the row of the service as a one-element
\* sequence, <<>> for the empty dict
get_oauth_tokens(tokens, service) ==
    IF \E r \in tokens : r.service = service
    THEN <<CHOOSE r \in tokens : r.service = service>>
    ELSE <<>>

\* a plausible slip: a plain INSERT on a table without the primary key
save_oauth_tokens_noreplace(tokens, service, expires_at) ==
    tokens \cup {[service |-> service, expires_at |-> expires_at]}

\* Database.save_oauth_tokens: INSERT OR REPLACE by service
save_oauth_tokens(tokens, service, expires_at) ==
    {r \in tokens : r.service # service} \cup {[service |-> service, expires_at |-> expires_at]}

\* Database.delete_oauth_tokens: DELETE FROM oauth_tokens WHERE service = ?
delete_oauth_tokens(tokens, service) == {r \in tokens : r.service # service}

\* TokenManager.get_access_token: the stored token when it has not expired;
\* otherwise one refresh through the proxy, whose token is stored and returned
\* (ok) or whose failure is raised to the caller (~ok).
TokenManager_get_access_token(tokens, now, refreshOk) ==
    LET row == get_oauth_tokens(tokens, "youtube")
    IN  IF row # <<>> /\ row[1].expires_at > now
        THEN [ok |-> TRUE, tokens |-> tokens, attempts |-> <<>>]
        ELSE IF refreshOk
        THEN [ok |-> TRUE, tokens |-> save_oauth_tokens(tokens, "youtube", now + 1),
              attempts |-> <<"refresh">>]
        ELSE [ok |-> FALSE, tokens |-> tokens, attempts |-> <<"refresh">>]

\* TokenManager.authenticate: one full authentication through the proxy, whose
\* token is stored and returned (ok) or whose failure is raised (~ok).
TokenManager_authenticate(tokens, now, authOk) ==
    IF authOk
    THEN [ok |-> TRUE, tokens |-> save_oauth_tokens(tokens, "youtube", now + 1),
          attempts |-> <<"authenticate">>]
    ELSE [ok |-> FALSE, tokens |-> tokens, attempts |-> <<"authenticate">>]

\* YouTubeSource.authenticate: get_access_token, and when that raises one
\* forced token_manager.authenticate.  outcome is what the token manager does:
\* "token" (get_access_token returns), "reauth" (it raises, authenticate
\* returns), "fail" (both raise).
authenticate(outcome) ==
    [ok |-> outcome # "fail",
     calls |-> IF outcome = "token" THEN <<"get_access_token">>
               ELSE <<"get_access_token", "authenticate">>]

\* What the proxy and the API client library do during one call of
\* YouTubeSource.authenticate: whether the refresh and the full authentication
\* succeed, and whether build("youtube", "v3", ...) does after each.
Proxies == [refresh : BOOLEAN, auth : BOOLEAN, build : BOOLEAN, rebuild : BOOLEAN]

\* a plausible slip: no forced re-authentication when get_access_token raises
AuthenticateWith_once(tokens, now, px) ==
    LET g == TokenManager_get_access_token(tokens, now, px.refresh)
        outcome == IF g.ok /\ px.build THEN "token" ELSE "fail"
    IN  [ok |-> outcome # "fail", calls |-> <<"get_access_token">>,
         tokens |-> g.tokens, attempts |-> g.attempts]

\* YouTubeSource.authenticate on the token table: the try block
\* (get_access_token, Credentials, build), and in the except block the forced
\* token_manager.authenticate with Credentials and build again.
AuthenticateWith(tokens, now, px) ==
    LET g == TokenManager_get_access_token(tokens, now, px.refresh)
        a == TokenManager_authenticate(g.tokens, now, px.auth)
        outcome == IF g.ok /\ px.build THEN "token"
                   ELSE IF a.ok /\ px.rebuild THEN "reauth"
                   ELSE "fail"
    IN  [ok |-> authenticate(outcome).ok, calls |-> authenticate(outcome).calls,
         tokens |-> IF outcome = "token" THEN g.tokens ELSE a.tokens,
         attempts |-> IF outcome = "token" THEN g.attempts ELSE g.attempts \o a.attempts]

\* a plausible slip: the table is rewritten from the listing
sync_subscriptions_to_db_rewrite(subRows, channels, now) ==
    {[channel_id |-> channels[i].channel_id, rss_url |-> channels[i].rss_url,
      last_synced |-> now] : i \in 1..Len(channels)}

\* Database.save_subscription for each listed channel (INSERT OR REPLACE by channel_id)
sync_subscriptions_to_db(subRows, channels, now) ==
    {r \in subRows : \A i \in 1..Len(channels) : channels[i].channel_id # r.channel_id}
    \cup {[channel_id |-> channels[i].channel_id, rss_url |-> channels[i].rss_url,
           last_synced |-> now] : i \in 1..Len(channels)}

\* ---- the pages of subscriptions().list
MaxPages == 3                  \* the requests a listing of the model may make

NoPageToken == "None"          \* pageToken=None, and a response without nextPageToken
PageTokens == {"t1", "t2"}

\* what request.execute() may come to: HttpError, or a response with the
\* channel ids of its items and, unless it is the last page, a nextPageToken
Responses ==
    {[fails |-> TRUE, items |-> <<>>, nextPageToken |-> NoPageToken]}
    \cup {[fails |-> FALSE, items |-> i, nextPageToken |-> t] :
             i \in {<<>>, <<ChannelId>>, <<<<"ch2">>>>}, t \in PageTokens \cup {NoPageToken}}

\* the subscription dict made of an item
subscription_of(channel_id) ==
    [channel_id |-> channel_id,
     rss_url |-> IF channel_id = ChannelId THEN ChannelFeed ELSE "yt-feed-other"]

\* get_subscriptions up to the loop: authenticate, then next_page_token = None
\* (api: the response of the API to each pageToken during this listing)
\* and subscriptions = []; pc "raised" when the authentication fails
start_listing(api, authOk) ==
    [op |-> "get_subscriptions", api |-> api, pc |-> IF authOk THEN "loop" ELSE "raised",
     next_page_token |-> NoPageToken, subscriptions |-> <<>>,
     requests |-> <<>>, responses |-> <<>>]

\* a plausible slip: on HttpError the subscriptions read so far are returned
list_page_partial(st, response) ==
    LET asked == [st EXCEPT !.requests = Append(@, st.next_page_token),
                            !.responses = Append(@, response)]
    IN  IF response.fails THEN [asked EXCEPT !.pc = "returned"]
        ELSE [asked EXCEPT
                !.subscriptions = @ \o [i \in 1..Len(response.items) |->
                                           subscription_of(response.items[i])],
                !.next_page_token = response.nextPageToken,
                !.pc = IF response.nextPageToken = NoPageToken THEN "returned" ELSE "loop"]

\* a plausible slip: no break, the loop goes on with pageToken=None
list_page_nobreak(st, response) ==
    LET asked == [st EXCEPT !.requests = Append(@, st.next_page_token),
                            !.responses = Append(@, response)]
    IN  IF response.fails THEN [asked EXCEPT !.pc = "raised"]
        ELSE [asked EXCEPT
                !.subscriptions = @ \o [i \in 1..Len(response.items) |->
                                           subscription_of(response.items[i])],
                !.next_page_token = response.nextPageToken]

\* one turn of the while True loop of get_subscriptions: the request with
\* pageToken=next_page_token, the items of the response appended, the loop
\* left when the response has no nextPageToken; HttpError is raised again.
\* requests and responses keep what was sent and received.
list_page(st, response) ==
    LET asked == [st EXCEPT !.requests = Append(@, st.next_page_token),
                            !.responses = Append(@, response)]
    IN  IF response.fails THEN [asked EXCEPT !.pc = "raised"]
        ELSE [asked EXCEPT
                !.subscriptions = @ \o [i \in 1..Len(response.items) |->
                                           subscription_of(response.items[i])],
                !.next_page_token = response.nextPageToken,
                !.pc = IF response.nextPageToken = NoPageToken THEN "returned" ELSE "loop"]

\* YouTubeSource.get_subscriptions as a whole: authenticate once more, then
\* the listing (every page of it, listing.channels being all the items);
\* "raise" when the authentication fails or a request does.
get_subscriptions(tokens, now, px, listing) ==
    LET a == AuthenticateWith(tokens, now, px)
    IN  [raised |-> ~a.ok \/ listing.raises,
         channels |-> IF a.ok /\ ~listing.raises THEN listing.channels ELSE <<>>,
         listings |-> IF a.ok THEN 1 ELSE 0,
         tokens |-> a.tokens, calls |-> a.calls, attempts |-> a.attempts]

\* a plausible slip: the channel of the first subscription, not of the one
\* whose feed the post came from
RECURSIVE ProcessedPosts_first(_, _, _, _)
ProcessedPosts_first(posts, subscriptions, enabled, tx) ==
    IF posts = <<>> THEN <<>>
    ELSE LET post == [Head(posts) EXCEPT !.source = "youtube"]
             video_id == extract_video_id(post.url)
             tagged == [post EXCEPT !.metadata.video_id = video_id,
                                    !.metadata.channel_id = subscriptions[1].channel_id]
         IN  <<IF ~Truthy(video_id) THEN post
               ELSE enhance_youtube_post(tagged, enabled, tx)>>
             \o ProcessedPosts_first(Tail(posts), subscriptions, enabled, tx)

\* the for post in youtube_posts loop of get_recent_content: source, video id,
\* channel id of the subscription whose feed the post came from, transcript
RECURSIVE ProcessedPosts(_, _, _, _)
ProcessedPosts(posts, subscriptions, enabled, tx) ==
    IF posts = <<>> THEN <<>>
    ELSE LET post == [Head(posts) EXCEPT !.source = "youtube"]
             video_id == extract_video_id(post.url)
             from == {i \in 1..Len(subscriptions) :
                         <<subscriptions[i].rss_url>> = post.metadata.feed_url}
             tagged == [post EXCEPT
                          !.metadata.video_id = video_id,
                          !.metadata.channel_id =
                              IF from = {} THEN @
                              ELSE subscriptions[CHOOSE i \in from :
                                                    \A j \in from : i <= j].channel_id]
         IN  <<IF ~Truthy(video_id) THEN post
               ELSE enhance_youtube_post(tagged, enabled, tx)>>
             \o ProcessedPosts(Tail(posts), subscriptions, enabled, tx)

\* the try block of get_recent_content once the subscriptions are listed
RecentPosts(got, subscriptions, rows, now, since_time, cfg, feeds, env) ==
    ProcessedPosts(
        get_posts_from_feeds([i \in 1..Len(subscriptions) |-> subscriptions[i].rss_url],
                             feeds, env.down, env.bozo, since_time, now, rows, TRUE,
                             env.page).posts,
        subscriptions, cfg.extract_transcripts, env.tx)

\* a plausible slip: the result of the first authenticate is not looked at
get_recent_content_unchecked(tokens, rows, subRows, now, since_time, cfg, feeds, env) ==
    LET a == AuthenticateWith(tokens, now, env.px[1])
        got == get_subscriptions(a.tokens, now, env.px[2], env.listing)
    IN  [posts |-> IF got.raised \/ got.channels = <<>> THEN <<>>
                   ELSE RecentPosts(got, got.channels, rows, now, since_time, cfg, feeds, env),
         raised |-> FALSE, authenticated |-> a.ok,
         listings |-> got.listings, listed |-> ~got.raised, channels |-> got.channels,
         subRows |-> IF got.raised THEN subRows
                     ELSE sync_subscriptions_to_db(subRows, got.channels, now),
         tokens |-> got.tokens,
         calls |-> a.calls \o got.calls, attempts |-> a.attempts \o got.attempts]

\* YouTubeSource(db).get_recent_content(since_time): [] when authenticate
\* returns False; otherwise, inside try/except Exception (which returns []),
\* the subscriptions are listed and synced and the posts of their feeds made.
get_recent_content(tokens, rows, subRows, now, since_time, cfg, feeds, env) ==
    LET a == AuthenticateWith(tokens, now, env.px[1])
        got == get_subscriptions(a.tokens, now, env.px[2], env.listing)
    IN  IF ~a.ok
        THEN [posts |-> <<>>, raised |-> FALSE, authenticated |-> FALSE, listings |-> 0,
              listed |-> FALSE, channels |-> <<>>, subRows |-> subRows, tokens |-> a.tokens, calls |-> a.calls,
              attempts |-> a.attempts]
        ELSE [posts |-> IF got.raised \/ got.channels = <<>> THEN <<>>
                        ELSE RecentPosts(got, got.channels, rows, now, since_time, cfg, feeds,
                                         env),
              raised |-> FALSE, authenticated |-> TRUE,
              listings |-> got.listings, listed |-> ~got.raised, channels |-> got.channels,
              subRows |-> IF got.raised THEN subRows
                          ELSE sync_subscriptions_to_db(subRows, got.channels, now),
              tokens |-> got.tokens,
              calls |-> a.calls \o got.calls, attempts |-> a.attempts \o got.attempts]

\* ---------------------------------------------------------- ingest_manager.py
\* What one ingestion of one source did: the tables after it, the list it
\* returned, whether an exception left it, and the requests it made.
Outcome(rows, subRows) ==
    [rows |-> rows, subRows |-> subRows, posts |-> <<>>, raised |-> FALSE,
     lookups |-> <<>>, scrapes |-> <<>>, transcripts |-> <<>>, upserts |-> <<>>,
     authCalls |-> <<>>, saved |-> 0]

\* since_hours or Config.DEFAULT_LOOKBACK_HOURS; now - timedelta(hours=since_hours)
SinceTime(now, since_hours, cfg) ==
    now - (IF since_hours # 0 THEN since_hours ELSE cfg.default_lookback_hours)

\* a plausible slip: the posts are saved as fetched and filtered afterwards
RssKeep_savefirst(got, rows, subRows, now, cfg, env) ==
    LET flt == FilterIfConfigured(got.posts, cfg)
        sv == SaveAll(rows, got.posts, now, env.ioFail)
        made == [Outcome(rows, subRows) EXCEPT !.lookups = got.lookups,
                                               !.scrapes = got.scrapes]
    IN  IF flt.raised THEN [made EXCEPT !.raised = TRUE]
        ELSE [made EXCEPT !.rows = sv.rows, !.posts = flt.posts, !.upserts = sv.upserts,
                          !.saved = sv.saved]

\* the rest of ingest_rss once the adapter has returned got: filter, save each
\* post, return the posts.  Nothing here catches an exception of the filter.
RssKeep(got, rows, subRows, now, cfg, env) ==
    LET flt == FilterIfConfigured(got.posts, cfg)
        sv == SaveAll(rows, flt.posts, now, env.ioFail)
        made == [Outcome(rows, subRows) EXCEPT !.lookups = got.lookups,
                                               !.scrapes = got.scrapes]
    IN  IF flt.raised THEN [made EXCEPT !.raised = TRUE]
        ELSE [made EXCEPT !.rows = sv.rows, !.posts = flt.posts, !.upserts = sv.upserts,
                          !.saved = sv.saved]

\* IngestManager.ingest_rss: RSSSource(db=self.db).get_recent_posts(...), then the rest
ingest_rss(rows, subRows, now, since_hours, cfg, feeds, env) ==
    RssKeep(get_posts_from_feeds(RSS_FEEDS, feeds, env.down, env.bozo,
                                 SinceTime(now, since_hours, cfg),
                                 now, rows, TRUE, env.page),
            rows, subRows, now, cfg, env)

\* the loop body of ingest_youtube for the posts of one channel: tag, ask the
\* store for post['url'], and enhance what it does not hold
RECURSIVE YoutubePosts(_, _, _, _, _)
YoutubePosts(posts, channel, rows, enabled, tx) ==
    IF posts = <<>> THEN [posts |-> <<>>, lookups |-> <<>>, transcripts |-> <<>>]
    ELSE LET post == [Head(posts) EXCEPT
                        !.source = "youtube",
                        !.metadata.video_id = extract_video_id(Head(posts).url),
                        !.metadata.channel_id = channel.channel_id]
             rest == YoutubePosts(Tail(posts), channel, rows, enabled, tx)
         IN  IF Found(rows, post.url)
             THEN [rest EXCEPT !.lookups = <<[key |-> post.url, id |-> post.id]>> \o @]
             ELSE [posts |-> <<enhance_youtube_post(post, enabled, tx)>> \o rest.posts,
                   lookups |-> <<[key |-> post.url, id |-> post.id]>> \o rest.lookups,
                   transcripts |-> (IF TranscriptRequested(post, enabled)
                                    THEN <<[url |-> post.url, id |-> post.id,
                                            stored |-> Found(rows, post.id)]>>
                                    ELSE <<>>) \o rest.transcripts]

\* one channel of the for channel in channels loop, given the posts got of its feed
YoutubeChannel(got, channel, rows, cfg, env) ==
    LET yt == YoutubePosts(got.posts, channel, rows, cfg.extract_transcripts, env.tx)
    IN  [posts |-> yt.posts, lookups |-> got.lookups \o yt.lookups,
         scrapes |-> got.scrapes, transcripts |-> yt.transcripts]

\* all_posts.extend(posts) over the channels
Extend(one, rest) ==
    [posts |-> one.posts \o rest.posts, lookups |-> one.lookups \o rest.lookups,
     scrapes |-> one.scrapes \o rest.scrapes,
     transcripts |-> one.transcripts \o rest.transcripts]

\* the for channel in channels loop: RSSSource() is built without a store
RECURSIVE YoutubeChannels(_, _, _, _, _, _, _)
YoutubeChannels(channels, rows, now, since_time, cfg, feeds, env) ==
    IF channels = <<>>
    THEN [posts |-> <<>>, lookups |-> <<>>, scrapes |-> <<>>, transcripts |-> <<>>]
    ELSE Extend(YoutubeChannel(
                    get_posts_from_feeds(<<Head(channels).rss_url>>, feeds, env.down, env.bozo,
                                         since_time, now, rows, FALSE, env.page),
                    Head(channels), rows, cfg, env),
                YoutubeChannels(Tail(channels), rows, now, since_time, cfg, feeds, env))

\* the rest of ingest_youtube once the channel loop has returned got: filter,
\* save each post, return the posts; an exception of the filter is caught by
\* the try/except around the whole body, which returns [].
YoutubeKeep(got, made, rows, now, cfg, env) ==
    LET flt == FilterIfConfigured(got.posts, cfg)
        sv == SaveAll(rows, flt.posts, now, env.ioFail)
        asked == [made EXCEPT !.lookups = got.lookups, !.scrapes = got.scrapes,
                              !.transcripts = got.transcripts]
    IN  IF flt.raised THEN asked
        ELSE [asked EXCEPT !.rows = sv.rows, !.posts = flt.posts, !.upserts = sv.upserts,
                           !.saved = sv.saved]

\* IngestManager.ingest_youtube: everything runs inside try/except Exception,
\* which returns [].  env.auth are the outcomes of the two authenticate calls
\* (ingest_youtube's own and the one get_subscriptions makes), env.listing the
\* answer of the subscription listing.
ingest_youtube(rows, subRows, now, since_hours, cfg, feeds, env) ==
    LET a1 == authenticate(env.auth[1])
        a2 == authenticate(env.auth[2])
        channels == env.listing.channels
        none == Outcome(rows, subRows)
    IN  IF ~a1.ok THEN [none EXCEPT !.authCalls = a1.calls]
        ELSE IF ~a2.ok \/ env.listing.raises
             THEN [none EXCEPT !.authCalls = a1.calls \o a2.calls]
        ELSE IF channels = <<>>
             THEN [none EXCEPT !.authCalls = a1.calls \o a2.calls,
                               !.subRows = sync_subscriptions_to_db(subRows, channels, now)]
        ELSE YoutubeKeep(YoutubeChannels(channels, rows, now, SinceTime(now, since_hours, cfg),
                                         cfg, feeds, env),
                         [none EXCEPT !.authCalls = a1.calls \o a2.calls,
                                      !.subRows = sync_subscriptions_to_db(subRows, channels,
                                                                           now)],
                         rows, now, cfg, env)

\* all_posts.extend(posts), and the requests of the run so far
Join(acc, one, source) ==
    [rows |-> one.rows, subRows |-> one.subRows,
     posts |-> IF one.raised THEN <<>> ELSE acc.posts \o one.posts, raised |-> one.raised,
     lookups |-> acc.lookups \o one.lookups, scrapes |-> acc.scrapes \o one.scrapes,
     transcripts |-> acc.transcripts \o one.transcripts,
     upserts |-> acc.upserts \o one.upserts,
     authCalls |-> acc.authCalls \o one.authCalls,
     saved |-> acc.saved + one.saved,
     done |-> IF one.raised THEN acc.done ELSE acc.done \o <<source>>]

\* the for source in sources loop of ingest: an exception of a source leaves
\* the loop and the call (raised), nothing is returned.
RECURSIVE ingest_loop(_, _, _, _, _, _, _)
ingest_loop(sources, acc, now, since_hours, cfg, feeds, env) ==
    IF sources = <<>> \/ acc.raised THEN acc
    ELSE LET source == Head(sources)
             one == IF source = "rss"
                    THEN ingest_rss(acc.rows, acc.subRows, now, since_hours, cfg, feeds, env)
                    ELSE IF source = "youtube"
                    THEN ingest_youtube(acc.rows, acc.subRows, now, since_hours, cfg, feeds,
                                        env)
                    ELSE Outcome(acc.rows, acc.subRows)
         IN  ingest_loop(Tail(sources), Join(acc, one, source), now, since_hours, cfg,
                         feeds, env)

\* IngestManager.ingest: sources or ["rss", "youtube"], in list order
ingest(sources, rows, subRows, now, since_hours, cfg, feeds, env) ==
    ingest_loop(IF sources = <<>> THEN <<"rss", "youtube">> ELSE sources,
                Outcome(rows, subRows) @@ [done |-> <<>>],
                now, since_hours, cfg, feeds, env)

\* ------------------------------------------------------------ the program
VARIABLES
    store,        \* the rows of content_cache
    subs,         \* the rows of youtube_subscriptions
    feeds,        \* what each feed URL serves now: a sequence of entries
    clock,        \* the current time
    cfg,          \* the configuration in config.yaml
    runs,         \* ingest calls made
    saves,        \* direct save_post calls made
    run,          \* what the latest ingest call met and did (forgotten when a feed changes)
    latest,       \* history: per id, the post of the latest successful direct save_post
    firstStored,  \* history: per id, the time of the first successful direct save_post
    enh,          \* one entry, what its enhancement requests meet, and the post made of it
    call,         \* the latest call of one operation on its own: its arguments and result
    tokens        \* the rows of oauth_tokens

vars ==
    <<store, subs, feeds, clock, cfg, runs, saves, run, latest, firstStored, enh, call, tokens>>

\* a config.yaml without filters, looking back one hour
NoFilter ==
    [include |-> <<>>, exclude |-> <<>>, extract_transcripts |-> TRUE,
     default_lookback_hours |-> 1]

Configs ==
    {NoFilter,
     [NoFilter EXCEPT !.include = <<<<"H">>>>],
     [NoFilter EXCEPT !.include = <<NonStr>>]}

Channel1 == [channel_id |-> ChannelId, rss_url |-> ChannelFeed]

\* what the network and the disk do during an ingest call
RssEnvs ==
    {[page |-> None, down |-> {}, bozo |-> {}, ioFail |-> {}],
     [page |-> Rep("s", MinScrapeLen + 1 + MaxExtra), down |-> {}, bozo |-> {}, ioFail |-> {}],
     [page |-> None, down |-> {}, bozo |-> {}, ioFail |-> {UrlA1}]}

NoYoutube ==
    [auth |-> <<"fail", "fail">>, listing |-> [raises |-> FALSE, channels |-> <<>>],
     tx |-> None]

YtEnvs ==
    {NoYoutube,
     [NoYoutube EXCEPT !.auth = <<"token", "token">>, !.listing.raises = TRUE],
     [NoYoutube EXCEPT !.auth = <<"reauth", "token">>, !.listing.channels = <<Channel1>>],
     [NoYoutube EXCEPT !.auth = <<"token", "token">>, !.listing.channels = <<Channel1>>,
                       !.tx = <<"t", "x">>]}

\* sources or ["rss", "youtube"]
Selected(sources) == IF sources = <<>> THEN <<"rss", "youtube">> ELSE sources

Selects(sources, name) ==
    \E i \in 1..Len(Selected(sources)) : Selected(sources)[i] = name

SourceLists == {<<>>, <<"rss">>, <<"youtube", "rss">>}

SinceHours == {0, 2}

\* the posts a caller hands to save_post directly
DirectPosts ==
    LET p == [keys |-> AllKeys, id |-> UrlA1, source |-> "rss", author_username |-> "f1",
              content |-> <<"o", "l", "d">>, url |-> UrlA1, created_at |-> 0,
              metadata |-> EmptyMeta]
    IN  {p,
         [p EXCEPT !.content = Short, !.created_at = 1,
                   !.metadata = [EmptyMeta EXCEPT !.entry_title = <<"A", "1">>]],
         [p EXCEPT !.keys = AllKeys \ {"metadata"}],
         [p EXCEPT !.metadata = NoneMeta, !.id = <<"guid-1">>],
         [p EXCEPT !.id = <<"guid-1">>, !.source = "youtube"],
         [p EXCEPT !.keys = AllKeys \ {"content"}]}

\* nothing raised and every upsert succeeded
Clean(res) ==
    /\ ~res.raised
    /\ \A i \in 1..Len(res.upserts) : res.upserts[i].ok

NoRun ==
    [posts |-> <<>>, raised |-> FALSE, lookups |-> <<>>, scrapes |-> <<>>,
     transcripts |-> <<>>, upserts |-> <<>>, done |-> <<>>, saved |-> 0,
     n |-> 0, sources |-> <<>>, since_time |-> 0, now |-> 0, before |-> {},
     afterSame |-> FALSE]

\* the history variables, read off the results save_post reported
RECURSIVE Record(_, _, _, _)
Record(lat, first, upserts, now) ==
    IF upserts = <<>> THEN [latest |-> lat, firstStored |-> first]
    ELSE LET u == Head(upserts)
         IN  IF ~u.ok THEN Record(lat, first, Tail(upserts), now)
             ELSE Record({p \in lat : p.id # u.id} \cup {u.post},
                         IF \E x \in first : x.id = u.id THEN first
                         ELSE first \cup {[id |-> u.id, at |-> now]},
                         Tail(upserts), now)

NoEnh ==
    [entry |-> EntryA1, page |-> None, tx |-> None, enabled |-> FALSE, post |-> <<>>,
     passes |-> 0]

NoCall == [op |-> "none"]

\* the state before a call made on its own: an empty store, empty tables, and
\* the two RSS feeds serving one of the lists first and one of the lists second
InitFeeds(first, second, now) ==
    /\ call = NoCall
    /\ enh = NoEnh
    /\ store = {}
    /\ subs = {}
    /\ \E a \in first, b \in second :
         feeds = [f \in FeedUrls |-> IF f = RSS_FEEDS[1] THEN a
                                     ELSE IF f = RSS_FEEDS[2] THEN b ELSE <<>>]
    /\ clock = now
    /\ cfg = NoFilter
    /\ runs = 0
    /\ saves = 0
    /\ run = NoRun
    /\ latest = {}
    /\ firstStored = {}
    /\ tokens = {}

Init ==
    /\ call = NoCall
    /\ enh = NoEnh
    /\ store = {}
    /\ subs = {}
    /\ feeds = [f \in FeedUrls |-> <<>>]
    /\ clock = 2
    /\ cfg \in Configs
    /\ runs = 0
    /\ saves = 0
    /\ run = NoRun
    /\ latest = {}
    /\ firstStored = {}
    /\ tokens = {}

Tick ==
    /\ clock < MaxTime
    /\ clock' = clock + 1
    /\ UNCHANGED <<store, subs, feeds, cfg, runs, saves, run, latest, firstStored, enh, call, tokens>>

Published == Len(feeds[RSS_FEEDS[1]]) + Len(feeds[RSS_FEEDS[2]]) + Len(feeds[ChannelFeed])

\* the entries each feed may come to serve
Publishable(f) ==
    IF f = RSS_FEEDS[1] THEN RssEntries
    ELSE IF f = RSS_FEEDS[2] THEN {EntryA1}
    ELSE ChannelEntries

\* a publisher appends an entry to a feed
Publish(f, e) ==
    /\ Published < MaxPublished
    /\ feeds' = [feeds EXCEPT ![f] = Append(@, e)]
    /\ run' = NoRun
    /\ UNCHANGED <<store, subs, clock, cfg, runs, saves, latest, firstStored, enh, call, tokens>>

\* a direct call of Database.save_post
SavePost(post, ioOk) ==
    /\ saves < MaxSaves
    /\ saves' = saves + 1
    /\ LET r == save_post(store, post, clock, ioOk)
           h == Record(latest, firstStored, <<[id |-> post.id, ok |-> r.ok, post |-> post]>>,
                       clock)
       IN  /\ store' = r.rows
           /\ latest' = h.latest
           /\ firstStored' = h.firstStored
    /\ run' = NoRun
    /\ call' = [op |-> "save_post", post |-> post, before |-> store,
                ok |-> save_post(store, post, clock, ioOk).ok]
    /\ UNCHANGED <<subs, feeds, clock, cfg, runs, enh, tokens>>

\* what a call of ingest that came to res leaves behind.  afterSame: the call
\* before it ran the same sources over the same feeds, with the same window or
\* a wider one, and was Clean.
Ran(res, sources, since_hours) ==
    /\ store' = res.rows
    /\ subs' = res.subRows
    /\ run' = [posts |-> res.posts, raised |-> res.raised,
               lookups |-> res.lookups, scrapes |-> res.scrapes,
               transcripts |-> res.transcripts, upserts |-> res.upserts,
               done |-> res.done, saved |-> res.saved,
               n |-> runs + 1, sources |-> sources,
               since_time |-> SinceTime(clock, since_hours, cfg), now |-> clock,
               before |-> {[id |-> r.id, fetched_at |-> r.fetched_at] : r \in store},
               afterSame |-> /\ run.n > 0 /\ Clean(run) /\ run.sources = sources
                             /\ run.since_time <= SinceTime(clock, since_hours, cfg)]

\* one call of IngestManager.ingest
Ingest(sources, since_hours) ==
    /\ runs < MaxRuns
    /\ runs' = runs + 1
    /\ \E re \in RssEnvs :
       \E ye \in IF Selects(sources, "youtube") THEN YtEnvs ELSE {NoYoutube} :
         Ran(ingest(sources, store, subs, clock, since_hours, cfg, feeds, re @@ ye),
             sources, since_hours)
    /\ UNCHANGED <<feeds, clock, cfg, saves, latest, firstStored, enh, call, tokens>>

Next ==
    \/ Tick
    \/ \E f \in FeedUrls : \E e \in Publishable(f) : Publish(f, e)
    \/ \E s \in SourceLists, h \in SinceHours : Ingest(s, h)

Spec == Init /\ [][Next]_vars

\* the timestamps a query is made with: on the second and past it
Timestamps == {Timestamp(at, us) : at \in 0..MaxTime, us \in {0, 500000}}

\* a direct call of Database.get_posts_since
GetPostsSince(since, source) ==
    /\ \E res \in get_posts_since(store, since, source) :
         call' = [op |-> "get_posts_since", since |-> since, source |-> source,
                  before |-> store, res |-> res]
    /\ UNCHANGED <<store, subs, feeds, clock, cfg, runs, saves, run, latest, firstStored,
                   enh, tokens>>

\* the store used through its API alone
NextDb ==
    \/ Tick
    \/ \E p \in DirectPosts, ioOk \in BOOLEAN : SavePost(p, ioOk)
    \/ \E since \in Timestamps, source \in {"", "rss", "youtube"} : GetPostsSince(since, source)

SpecDb == Init /\ [][NextDb]_vars

\* ------------------------------------------------- enhancement on its own
\* the bodies an entry may carry and the transcripts the transcript API may answer
Bodies ==
    {<<>>, Short, Rep("b", MinScrapeLen), LongBody, Rep("b", MinScrapeLen + 1 + MaxExtra)}

Transcripts == {None, <<>>, <<"t", "x">>}

InitEnhance ==
    /\ call = NoCall
    /\ store = {}
    /\ subs = {}
    /\ feeds = [f \in FeedUrls |-> <<>>]
    /\ clock = 2
    /\ cfg = NoFilter
    /\ runs = 0
    /\ saves = 0
    /\ run = NoRun
    /\ latest = {}
    /\ firstStored = {}
    /\ tokens = {}
    /\ \E b \in Bodies, u \in {UrlA1, UrlV1}, p \in Pages, t \in Transcripts, on \in BOOLEAN :
         enh = [entry |-> Entry(FALSE, <<>>, TRUE, u, 1, NoDate, <<"E">>, b, Short),
                page |-> p, tx |-> t, enabled |-> on, post |-> <<>>, passes |-> 0]

\* RSSSource._process_rss_entry on the entry: extraction and the scrape pass
ScrapePass ==
    /\ enh.passes = 0
    /\ enh' = [enh EXCEPT
                 !.post = process_rss_entry(enh.entry, RSS_FEEDS[1], SinceTime(clock, 0, cfg),
                                            clock, store, TRUE, enh.page).post,
                 !.passes = 1]
    /\ UNCHANGED <<store, subs, feeds, clock, cfg, runs, saves, run, latest, firstStored, call, tokens>>

\* YouTubeSource.enhance_youtube_post on the post, once more
TranscriptPass ==
    /\ enh.passes \in 1..MaxPasses
    /\ enh.post # <<>>
    /\ enh' = [enh EXCEPT
                 !.post = <<enhance_youtube_post(enh.post[1], enh.enabled, enh.tx)>>,
                 !.passes = @ + 1]
    /\ UNCHANGED <<store, subs, feeds, clock, cfg, runs, saves, run, latest, firstStored, call, tokens>>

NextEnhance == ScrapePass \/ TranscriptPass

SpecEnhance == InitEnhance /\ [][NextEnhance]_vars

\* ------------------------------------------------ the RSS adapter on its own
AdapterEntries == {EntryA1, EntryA2, EntryG1, EntryU0, EntryN1, EntryS1, EntryX1}

\* the sequences over S of length at most n
SeqsUpTo(S, n) == UNION {[1..k -> S] : k \in 0..n}

\* a store that holds the record of EntryA1
StoreA1 ==
    save_post({}, process_rss_entry(EntryA1, RSS_FEEDS[1], 0, 1, {}, FALSE, None).post[1],
              1, TRUE).rows

InitAdapter ==
    /\ call = NoCall
    /\ enh = NoEnh
    /\ store \in {{}, StoreA1}
    /\ subs = {}
    /\ \E a \in SeqsUpTo(AdapterEntries, MaxEntries), b \in SeqsUpTo(AdapterEntries, 1) :
         feeds = [f \in FeedUrls |-> IF f = RSS_FEEDS[1] THEN a
                                     ELSE IF f = RSS_FEEDS[2] THEN b ELSE <<>>]
    /\ clock \in {2, MaxTime}
    /\ cfg = NoFilter
    /\ runs = 0
    /\ saves = 0
    /\ run = NoRun
    /\ latest = {}
    /\ firstStored = {}
    /\ tokens = {}

\* one call of RSSSource(db).get_posts_from_feeds(feed_urls, since_time);
\* since_time NoDate is the call without a since_time
AdapterCall(feed_urls, down, bozo, since_time) ==
    /\ call = NoCall
    /\ down \cap bozo = {}
    /\ call' = [op |-> "get_posts_from_feeds", feed_urls |-> feed_urls, down |-> down,
                bozo |-> bozo, since_time |-> since_time, now |-> clock,
                res |-> get_posts_from_feeds(feed_urls, feeds, down, bozo, since_time, clock,
                                             store, TRUE,
                                             Rep("s", MinScrapeLen + 1 + MaxExtra))]
    /\ UNCHANGED <<store, subs, feeds, clock, cfg, runs, saves, run, latest, firstStored, enh, tokens>>

NextAdapter ==
    \E feed_urls \in {RSS_FEEDS, <<RSS_FEEDS[2], RSS_FEEDS[1]>>, <<RSS_FEEDS[1]>>},
       down \in {{}, {RSS_FEEDS[1]}, {RSS_FEEDS[2]}},
       bozo \in {{}, {RSS_FEEDS[1]}},
       since_time \in {NoDate, 1, 2, MaxTime + 1} :
        AdapterCall(feed_urls, down, bozo, since_time)

SpecAdapter == InitAdapter /\ [][NextAdapter]_vars

\* ---------------------------------- the RSS adapter on entries that may raise
EntryBad == Entry(FALSE, <<>>, TRUE, UrlN1, BadDate, NoDate, <<"B", "1">>, None, Short)

SpecEntryError ==
    InitFeeds(SeqsUpTo({EntryA1, EntryA2, EntryBad}, MaxEntries + 1), SeqsUpTo({EntryG1}, 1), 2)
    /\ [][NextAdapter]_vars

\* ------------------------------- the RSS adapter with and without the network
\* one call of RSSSource(db).get_posts_from_feeds(feed_urls, since_time) in
\* which every scrape request meets page: None when the request or the
\* extraction raises
OfflineCall(feed_urls, since_time, page) ==
    /\ call = NoCall
    /\ call' = [op |-> "get_posts_from_feeds", feed_urls |-> feed_urls, down |-> {},
                bozo |-> {}, since_time |-> since_time, now |-> clock, page |-> page,
                res |-> get_posts_from_feeds(feed_urls, feeds, {}, {}, since_time, clock,
                                             store, TRUE, page)]
    /\ UNCHANGED <<store, subs, feeds, clock, cfg, runs, saves, run, latest, firstStored, enh, tokens>>

SpecOffline ==
    InitFeeds(SeqsUpTo(AdapterEntries, MaxEntries), SeqsUpTo(AdapterEntries, 1), 2)
    /\ [][\E feed_urls \in {RSS_FEEDS, <<RSS_FEEDS[1]>>},
             since_time \in {NoDate, 2},
             page \in {None, Rep("s", MinScrapeLen + 1 + MaxExtra)} :
              OfflineCall(feed_urls, since_time, page)]_vars

\* ------------------------------------------------- the keyword filter alone
\* include_keywords / exclude_keywords of config.yaml: mixed case, a keyword
\* that spans body and title, an empty and a whitespace keyword, one that
\* matches nothing
Keywords == {<<"H">>, <<"a">>, <<"I", " ", "A">>, <<" ">>, <<>>, <<"z">>}

KeywordLists == SeqsUpTo(Keywords, MaxKeywords)

\* the exclude lists tried: at most one keyword, or a blank one before one
\* that matches
ExcludeLists == SeqsUpTo(Keywords, 1) \cup {<<<<" ">>, <<"a">>>>}

\* records as the RSS adapter returns them
FilterPosts ==
    {process_rss_entry(e, RSS_FEEDS[1], NoDate, 1, {}, FALSE, None).post[1] :
        e \in {EntryA1, EntryG1, EntryN1}}

InitFilter ==
    /\ call = NoCall
    /\ enh = NoEnh
    /\ store = {}
    /\ subs = {}
    /\ feeds = [f \in FeedUrls |-> <<>>]
    /\ clock = 1
    /\ \E inc \in KeywordLists, exc \in ExcludeLists :
         cfg = [NoFilter EXCEPT !.include = inc, !.exclude = exc]
    /\ runs = 0
    /\ saves = 0
    /\ run = NoRun
    /\ latest = {}
    /\ firstStored = {}
    /\ tokens = {}

\* one call of IngestManager._apply_content_filter(posts)
FilterCall(posts) ==
    /\ call = NoCall
    /\ call' = [op |-> "apply_content_filter", posts |-> posts,
                res |-> apply_content_filter(posts, cfg)]
    /\ UNCHANGED <<store, subs, feeds, clock, cfg, runs, saves, run, latest, firstStored, enh, tokens>>

NextFilter == \E posts \in SeqsUpTo(FilterPosts, MaxPosts) : FilterCall(posts)

SpecFilter == InitFilter /\ [][NextFilter]_vars

\* ------------------------------------------------ the YouTube adapter alone
\* the oauth_tokens tables at the start: no row, one that expired at 0, one
\* that expires at 2
TokenTables ==
    {{}, {[service |-> "youtube", expires_at |-> 0]},
     {[service |-> "youtube", expires_at |-> 2]}}

\* what the proxy, the subscription listing and the transcript API do during
\* one get_recent_content call; px[2] is met by the authenticate of
\* get_subscriptions
\* a second channel, whose feed nothing is served at
Channel2 == subscription_of(<<"ch2">>)

YoutubeEnvs ==
    [px : {<<a, b>> : a \in Proxies,
                      b \in {p \in Proxies : p.build /\ p.rebuild /\ (p.refresh => p.auth)}},
     listing : {[raises |-> TRUE, channels |-> <<>>], [raises |-> FALSE, channels |-> <<>>],
                [raises |-> FALSE, channels |-> <<Channel1>>]},
     tx : {None, <<"t", "x">>}, page : {None}, down : {{}}, bozo : {{}}]
    \cup
    [px : {<<[refresh |-> TRUE, auth |-> TRUE, build |-> TRUE, rebuild |-> TRUE],
             [refresh |-> TRUE, auth |-> TRUE, build |-> TRUE, rebuild |-> TRUE]>>},
     listing : {[raises |-> FALSE, channels |-> <<Channel1>>],
                [raises |-> FALSE, channels |-> <<Channel2>>],
                [raises |-> FALSE, channels |-> <<Channel2, Channel1, Channel2>>]},
     tx : {None}, page : {None}, down : {{}, {ChannelFeed}}, bozo : {{}}]

InitYoutube ==
    /\ call = NoCall
    /\ enh = NoEnh
    /\ store = {}
    /\ subs = {}
    /\ feeds = [f \in FeedUrls |-> IF f = ChannelFeed THEN <<EntryV1>> ELSE <<>>]
    /\ clock = 1
    /\ cfg = NoFilter
    /\ runs = 0
    /\ saves = 0
    /\ run = NoRun
    /\ latest = {}
    /\ firstStored = {}
    /\ tokens \in TokenTables

\* one call of YouTubeSource.authenticate
AuthenticateCall(px) ==
    /\ runs < MaxRuns
    /\ runs' = runs + 1
    /\ tokens' = AuthenticateWith(tokens, clock, px).tokens
    /\ call' = [op |-> "authenticate", before |-> tokens, now |-> clock, px |-> px,
                ok |-> AuthenticateWith(tokens, clock, px).ok,
                calls |-> AuthenticateWith(tokens, clock, px).calls,
                attempts |-> AuthenticateWith(tokens, clock, px).attempts]
    /\ UNCHANGED <<store, subs, feeds, clock, cfg, saves, run, latest, firstStored, enh>>

\* what a get_recent_content call did, given its result
Recent(res, since_time) ==
    /\ tokens' = res.tokens
    /\ subs' = res.subRows
    /\ call' = [op |-> "get_recent_content", before |-> tokens, subsBefore |-> subs,
                now |-> clock, since_time |-> since_time,
                posts |-> res.posts, raised |-> res.raised,
                authenticated |-> res.authenticated, listings |-> res.listings,
                listed |-> res.listed, channels |-> res.channels,
                calls |-> res.calls, attempts |-> res.attempts]

\* one call of YouTubeSource(db).get_recent_content(since_time)
GetRecentContent(env, since_time) ==
    /\ runs < MaxRuns
    /\ runs' = runs + 1
    /\ Recent(get_recent_content(tokens, store, subs, clock, since_time, cfg, feeds, env),
              since_time)
    /\ UNCHANGED <<store, feeds, clock, cfg, saves, run, latest, firstStored, enh>>

NextYoutube ==
    \/ Tick
    \/ \E px \in Proxies : AuthenticateCall(px)
    \/ \E env \in YoutubeEnvs, since_time \in {NoDate, 1} : GetRecentContent(env, since_time)

SpecYoutube == InitYoutube /\ [][NextYoutube]_vars

\* ------------------------------------------------ the token table on its own
Services == {"youtube", "other"}

\* a call of Database.save_oauth_tokens; when the database raises (~ioOk)
\* nothing is written and False is returned.  latest keeps, per service, the
\* values of the latest save that succeeded and was not deleted since.
SaveTokens(service, expires_at, ioOk) ==
    /\ saves < MaxSaves
    /\ saves' = saves + 1
    /\ tokens' = IF ioOk THEN save_oauth_tokens(tokens, service, expires_at) ELSE tokens
    /\ latest' = IF ioOk
                 THEN {x \in latest : x.service # service}
                      \cup {[service |-> service, expires_at |-> expires_at]}
                 ELSE latest
    /\ call' = NoCall
    /\ UNCHANGED <<store, subs, feeds, clock, cfg, runs, run, firstStored, enh>>

\* a call of Database.get_oauth_tokens
GetTokens(service) ==
    /\ call' = [op |-> "get_oauth_tokens", service |-> service,
                res |-> get_oauth_tokens(tokens, service)]
    /\ UNCHANGED <<store, subs, feeds, clock, cfg, runs, saves, run, latest, firstStored,
                   enh, tokens>>

\* a call of Database.delete_oauth_tokens; nothing is deleted when the
\* database raises
DeleteTokens(service, ioOk) ==
    /\ tokens' = IF ioOk THEN delete_oauth_tokens(tokens, service) ELSE tokens
    /\ latest' = IF ioOk THEN {x \in latest : x.service # service} ELSE latest
    /\ call' = NoCall
    /\ UNCHANGED <<store, subs, feeds, clock, cfg, runs, saves, run, firstStored, enh>>

NextTokens ==
    \/ \E s \in Services, e \in 1..MaxTime, ioOk \in BOOLEAN : SaveTokens(s, e, ioOk)
    \/ \E s \in Services : GetTokens(s)
    \/ \E s \in Services, ioOk \in BOOLEAN : DeleteTokens(s, ioOk)

SpecTokens == InitFeeds({<<>>}, {<<>>}, 1) /\ [][NextTokens]_vars

\* ------------------------------------------- one listing of subscriptions
\* YouTubeSource.get_subscriptions is called
StartListing(api, authOk) ==
    /\ call = NoCall
    /\ call' = start_listing(api, authOk)
    /\ UNCHANGED <<store, subs, feeds, clock, cfg, runs, saves, run, latest, firstStored,
                   enh, tokens>>

\* one turn of its loop
ListPage ==
    /\ call.op = "get_subscriptions"
    /\ call.pc = "loop"
    /\ Len(call.requests) < MaxPages
    /\ call' = list_page(call, call.api[call.next_page_token])
    /\ UNCHANGED <<store, subs, feeds, clock, cfg, runs, saves, run, latest, firstStored,
                   enh, tokens>>

NextPages ==
    \/ \E api \in [PageTokens \cup {NoPageToken} -> Responses], authOk \in BOOLEAN :
         StartListing(api, authOk)
    \/ ListPage

SpecPages == InitFeeds({<<>>}, {<<>>}, 1) /\ [][NextPages]_vars

\* the loop is straight-line code of one thread: a turn that can be taken is
\* taken
SpecPagesLive == SpecPages /\ WF_vars(ListPage)

\* ------------------------------------------- an ingest the user interrupts
\* IngestManager.ingest_rss cut short by KeyboardInterrupt once `at` pieces of
\* per-item work have started: the scrape requests of get_recent_posts come
\* first, the save_content calls of the save loop after them.  No handler on
\* the way is wider than `except Exception`, so the interrupt leaves the loop
\* it arrives in and reaches main(); the saves already committed stay.
interrupted_ingest_rss(rows, now, since_hours, config, feeds_, env, at) ==
    LET got == get_posts_from_feeds(RSS_FEEDS, feeds_, env.down, env.bozo,
                                    SinceTime(now, since_hours, config),
                                    now, rows, TRUE, env.page)
        posts == FilterIfConfigured(got.posts, config).posts
        asked == IF at < Len(got.scrapes) THEN at ELSE Len(got.scrapes)
        k == IF at - asked < Len(posts) THEN at - asked ELSE Len(posts)
        sv == SaveAll(rows, SubSeq(posts, 1, k), now, env.ioFail)
    IN  [rows |-> sv.rows, scrapes |-> SubSeq(got.scrapes, 1, asked),
         upserts |-> sv.upserts, work |-> Len(got.scrapes) + Len(posts)]

\* colino ingest --rss, interrupted by the user: main() logs "Operation
\* cancelled by user" and the process ends
InterruptedIngest(since_hours, at) ==
    /\ call = NoCall
    /\ runs < MaxRuns
    /\ runs' = runs + 1
    /\ \E re \in RssEnvs :
         LET r == interrupted_ingest_rss(store, clock, since_hours, cfg, feeds, re, at)
         IN  /\ at <= r.work
             /\ store' = r.rows
             /\ call' = [op |-> "interrupted_ingest", at |-> at, before |-> store,
                         scrapes |-> r.scrapes, upserts |-> r.upserts, work |-> r.work]
    /\ run' = NoRun
    /\ UNCHANGED <<subs, feeds, clock, cfg, saves, latest, firstStored, enh, tokens>>

SpecInterrupt ==
    InitFeeds(SeqsUpTo({EntryA1, EntryG1, EntryA2}, MaxEntries), SeqsUpTo({EntryS1}, 1), 2)
    /\ [][\/ \E h \in SinceHours, at \in 0..(2 * MaxEntries + 2) : InterruptedIngest(h, at)
          \/ \E h \in SinceHours : Ingest(<<"rss">>, h)]_vars

\* --------------------------------------------------- extract_video_id alone
\* the URLs extract_video_id is given: none, articles, the four YouTube
\* shapes with and without a video id and with parameters after it, a watch
\* URL inside the query of another URL, and URLs with an unclosed bracket
VideoUrls ==
    {<<>>, UrlA1, UrlS1, UrlV1,
     <<"https://", "youtube.com/watch?v=", "v1", "&", "t=3">>,
     <<"https://", "youtube.com/watch?v=", "v2", "#", "t=3">>,
     <<"https://", "youtube.com/watch?v=">>,
     <<"https://", "youtu.be/", "v1">>,
     <<"https://", "youtu.be/", "v2", "?", "t=3">>,
     <<"https://", "youtu.be/">>,
     <<"https://", "youtube.com/embed/", "v1">>,
     <<"https://", "youtube.com/embed/", "v2", "?", "x=1">>,
     <<"https://", "youtube.com/v/", "v1", "?", "x=1">>,
     <<"https://", "a.com/", "?", "u=", "youtube.com/watch?v=", "v1">>,
     <<"http://", "[", "a.com/", "1">>,
     <<"http://", "[", "youtu.be/", "v1">>,
     <<"http://", "[", "youtube.com/watch?v=", "v1">>}

\* YouTubeSource().extract_video_id(url), then the same on another URL, then
\* on url again: what each of the calls on url came to
ExtractCall(url, other) ==
    /\ call' = [op |-> "extract_video_id", url |-> url, other |-> other,
                raised |-> extract_video_id_raises(url),
                res |-> IF extract_video_id_raises(url) THEN None ELSE extract_video_id(url),
                again |-> IF extract_video_id_raises(url) THEN None ELSE extract_video_id(url)]
    /\ UNCHANGED <<store, subs, feeds, clock, cfg, runs, saves, run, latest, firstStored, enh, tokens>>

SpecVideoId ==
    InitFeeds({<<>>}, {<<>>}, 1)
    /\ [][\E url \in VideoUrls, other \in VideoUrls : ExtractCall(url, other)]_vars

\* --------------------------------------------------------- digest_manager.py
\* the store's lookup by the url field: the record as a one-element sequence,
\* <<>> when no row has the URL
get_content_by_url(rows, url) ==
    IF \E r \in rows : r.url = url
    THEN <<[(CHOOSE r \in rows : r.url = url) EXCEPT !.metadata = json_loads(@)]>>
    ELSE <<>>

\* DigestGenerator.summarize_article up to the prompt: metadata.get raises on
\* a null metadata; with ai.extract_web_content (links) a record that is not
\* a YouTube one has its URL fetched by ContentFetcher, and one without a URL
\* leaves full_content unbound, which raises
summarize_article(article, links) ==
    IF article.metadata.isNone THEN [raised |-> TRUE, requests |-> <<>>]
    ELSE IF ~links \/ article.source = "youtube" THEN [raised |-> FALSE, requests |-> <<>>]
    ELSE IF Truthy(article.url)
         THEN [raised |-> FALSE, requests |-> <<[kind |-> "fetch", key |-> article.url]>>]
    ELSE [raised |-> TRUE, requests |-> <<>>]

\* DigestManager._digest_fresh_url: a transcript request for a URL with a
\* video id (none is made with transcripts switched off), a scrape request
\* otherwise; False when nothing comes back
digest_fresh_url(url, enabled, page, tx) ==
    IF extract_video_id_raises(url) THEN [ok |-> FALSE, requests |-> <<>>]
    ELSE IF Truthy(extract_video_id(url))
         THEN [ok |-> get_video_transcript(extract_video_id(url), enabled, tx) # None,
               requests |-> IF enabled
                            THEN <<[kind |-> "transcript", key |-> extract_video_id(url)]>>
                            ELSE <<>>]
    ELSE [ok |-> scrape_article_content(url, page) # None,
          requests |-> <<[kind |-> "scrape", key |-> url]>>]

\* DigestManager.digest_url: the lookups made, whether one of them found a
\* record, the requests that went out, the bool returned and the rows of the
\* store afterwards.  Every exception ends in return False.
digest_url(rows, url, links, enabled, page, tx) ==
    LET byId == Found(rows, url)
        byUrl == get_content_by_url(rows, url)
        lookups == IF byId THEN <<"id">> ELSE <<"id", "url">>
        existing == IF byId THEN <<get_post_by(rows, url)>> ELSE byUrl
    IN  IF existing # <<>>
        THEN [lookups |-> lookups, hit |-> TRUE, rows |-> rows,
              requests |-> summarize_article(existing[1], links).requests,
              ok |-> ~summarize_article(existing[1], links).raised]
        ELSE [lookups |-> lookups, hit |-> FALSE, rows |-> rows,
              requests |-> digest_fresh_url(url, enabled, page, tx).requests,
              ok |-> digest_fresh_url(url, enabled, page, tx).ok]

\* colino digest <url>
DigestUrl(url, links, page, tx) ==
    /\ store' = digest_url(store, url, links, cfg.extract_transcripts, page, tx).rows
    /\ call' = [op |-> "digest_url", url |-> url, before |-> store, links |-> links,
                res |-> digest_url(store, url, links, cfg.extract_transcripts, page, tx)]
    /\ run' = NoRun
    /\ UNCHANGED <<subs, feeds, clock, cfg, runs, saves, latest, firstStored, enh, tokens>>

SpecDigest ==
    InitFeeds({<<>>}, {<<>>}, 1)
    /\ [][\/ \E post \in DirectPosts, ioOk \in BOOLEAN : SavePost(post, ioOk)
          \/ \E url \in {UrlA1, UrlB1, UrlV1, <<"guid-1">>},
                links \in BOOLEAN,
                page \in {None, Rep("s", MinScrapeLen + 1)},
                tx \in {None, <<"t", "x">>} : DigestUrl(url, links, page, tx)]_vars

\* ------------------------------------------------- ingest on source names
\* ingest of main.py: the same loop as IngestManager.ingest over its own
\* ingest_rss (the same statements) and fetch_youtube_posts, but a name that
\* is neither 'rss' nor 'youtube' raises ValueError: the sources before it
\* have run, the ones after it do not, and nothing is returned
main_ingest(sources, rows, subRows, now, since_hours, config, feeds_, env) ==
    LET names == IF sources = <<>> THEN <<"rss", "youtube">> ELSE sources
        unknown == {i \in DOMAIN names : names[i] \notin {"rss", "youtube"}}
        upTo == IF unknown = {} THEN Len(names)
                ELSE (CHOOSE i \in unknown : \A j \in unknown : i <= j) - 1
        ran == ingest_loop(SubSeq(names, 1, upTo), Outcome(rows, subRows) @@ [done |-> <<>>],
                           now, since_hours, config, feeds_, env)
    IN  IF unknown = {} THEN ran ELSE [ran EXCEPT !.raised = TRUE, !.posts = <<>>]

\* the source lists a caller may hand to ingest: none, one with a name that
\* is no source first, in the middle, last or alone
NamedLists ==
    {<<>>, <<"rss">>, <<"atom">>, <<"atom", "rss">>, <<"rss", "atom">>,
     <<"youtube", "atom", "rss">>, <<"rss", "youtube">>}

\* one call of ingest of main.py; the lists tried leave 'youtube' out, whose
\* fetch_youtube_posts is not IngestManager.ingest_youtube
MainIngest(sources, since_hours) ==
    /\ runs < MaxRuns
    /\ runs' = runs + 1
    /\ sources # <<>> /\ ~Selects(sources, "youtube")
    /\ \E re \in RssEnvs :
         Ran(main_ingest(sources, store, subs, clock, since_hours, cfg, feeds,
                         re @@ NoYoutube),
             sources, since_hours)
    /\ call' = [op |-> "main_ingest", n |-> runs + 1]
    /\ UNCHANGED <<feeds, clock, cfg, saves, latest, firstStored, enh, tokens>>

SpecSources ==
    InitFeeds({<<>>}, {<<>>}, 2)
    /\ [][\/ \E f \in FeedUrls : \E e \in Publishable(f) : Publish(f, e)
          \/ \E s \in NamedLists, h \in SinceHours : Ingest(s, h)
          \/ \E s \in NamedLists, h \in SinceHours : MainIngest(s, h)]_vars

\* ------------------------------------------------------------------ claims
StoredIds(rows) == {r.id : r \in rows}

\* the entries the RSS feeds serve
RssServed == UNION {SeqToSet(feeds[RSS_FEEDS[k]]) : k \in 1..Len(RSS_FEEDS)}

\* the latest call ingested RSS alone
RssRun == run.n > 0 /\ run.sources = <<"rss">>

\* C1: when a run of RSS ingestion follows a clean run over the same feeds and
\* both windows cover every entry served, the second run issues no upsert,
\* returns the empty list and leaves every stored fetched_at as it was.
C1_SecondRunStoresNothing ==
    (/\ RssRun
     /\ run.afterSame
     /\ \A e \in RssServed : ~TooOld(run.since_time, parse_entry_date(e)))
    => /\ run.upserts = <<>>
       /\ run.posts = <<>>
       /\ \A r \in store : \A b \in run.before : b.id = r.id => b.fetched_at = r.fetched_at

\* C2: after any sequence of save_post calls the store holds at most one row
\* per id, and get_post_by(id) returns the fields of the latest successful
\* save of that id (and nothing when no save of it succeeded).
C2_OneRowPerIdLatestWins ==
    \A id \in {p.id : p \in DirectPosts} :
        /\ Cardinality(SelectById(store, id)) <= 1
        /\ Found(store, id) <=> \E p \in latest : p.id = id
        /\ \A p \in latest : p.id = id =>
              LET got == get_post_by(store, id)
              IN  /\ got.id = p.id
                  /\ got.source = p.source
                  /\ got.author_username = p.author_username
                  /\ got.content = p.content
                  /\ got.url = p.url
                  /\ got.created_at = p.created_at
                  /\ got.metadata = (IF "metadata" \in p.keys THEN p.metadata ELSE EmptyMeta)

\* a later successful save of an id replaced the row of an earlier one
C2_Witness ==
    /\ saves >= 2
    /\ \E r \in store : \E f \in firstStored : \E p \in latest :
          /\ f.id = r.id /\ p.id = r.id
          /\ f.at < r.fetched_at
          /\ r.content = Short
          /\ get_post_by(store, r.id).content = p.content

\* C3: within one run no URL is scraped twice and no identity is enhanced
\* twice: the later of two entries with the same identity is skipped.
C3_SameIdentityScrapedOnce ==
    \A i, j \in DOMAIN run.scrapes :
        i < j => /\ run.scrapes[i].id # run.scrapes[j].id
                 /\ run.scrapes[i].url # run.scrapes[j].url

\* C4: the key the RSS adapter asks the store for is the id under which the
\* entry's record is stored.
C4_DedupKeyIsStoredKey ==
    RssRun => \A i \in DOMAIN run.lookups : run.lookups[i].key = run.lookups[i].id

\* C5: the records a clean, unfiltered run of RSS ingestion stores are exactly
\* the in-window entries (short-form videos aside) whose id was not stored
\* before the run.
C5_StoresExactlyTheNewEntries ==
    (RssRun /\ Clean(run) /\ cfg = NoFilter)
    => {run.upserts[i].id : i \in DOMAIN run.upserts}
       = {post_id_of(e) : e \in {x \in RssServed :
                                    /\ post_id_of(x) # <<>>
                                    /\ ~TooOld(run.since_time, parse_entry_date(x))
                                    /\ ~IsShorts(article_url_of(x))
                                    /\ post_id_of(x) \notin StoredIds(run.before)}}

\* C6: the fetched_at of a stored row is the time of the first successful
\* save of its id, after any number of re-saves.
C6_FetchedAtIsFirstSave ==
    \A r \in store : \A f \in firstStored : f.id = r.id => r.fetched_at = f.at

\* C7: no scrape request and no transcript request is made for an entry whose
\* id the store holds when the entry is processed.
C7_NoEnrichmentOfStoredEntries ==
    /\ \A i \in DOMAIN run.scrapes : ~run.scrapes[i].stored
    /\ \A i \in DOMAIN run.transcripts : ~run.transcripts[i].stored

\* C8: after the scrape pass and any number of transcript passes the body of
\* the post starts with the body extracted from the entry, and
\* metadata.rss_content is that body.
C8_EnhancementOnlyAppends ==
    enh.post # <<>> =>
        /\ StartsWith(enh.post[1].content, extract_rss_content(enh.entry))
        /\ enh.post[1].metadata.rss_content = extract_rss_content(enh.entry)

\* a post that a scrape and two transcript passes have grown
C8_Witness ==
    /\ enh.passes > 2
    /\ enh.post # <<>>
    /\ Contains(enh.post[1].content, FullContentDelim)
    /\ Contains(enh.post[1].content, TranscriptDelim)
    /\ Len(enh.post[1].content) > Len(extract_rss_content(enh.entry)) + Len(enh.page)
                                  + 2 * Len(enh.tx)

\* C9: after the scrape pass the body is the extracted body followed by the
\* scraped text when that text has more than 100 characters and is strictly
\* longer than the extracted body, and is exactly the extracted body otherwise.
C9_AppendedIffLongEnough ==
    (enh.passes = 1 /\ enh.post # <<>>) =>
        LET body == extract_rss_content(enh.entry)
        IN  IF enh.page # None /\ Len(enh.page) > MinScrapeLen /\ Len(enh.page) > Len(body)
            THEN enh.post[1].content = body \o FullContentDelim \o enh.page
            ELSE enh.post[1].content = body

\* a scraped text one character longer than a body that is itself over the
\* threshold: appended
C9_Witness ==
    /\ enh.passes = 1
    /\ enh.post # <<>>
    /\ enh.page # None
    /\ Len(extract_rss_content(enh.entry)) > MinScrapeLen
    /\ Len(enh.page) = Len(extract_rss_content(enh.entry)) + 1
    /\ enh.post[1].content = extract_rss_content(enh.entry) \o FullContentDelim \o enh.page

\* C10: no exception leaves ingest, and every selected source is ingested
\* whatever happened to the sources before it.
C10_SourceFailuresAreContained ==
    run.n > 0 => /\ ~run.raised
                 /\ run.done = Selected(run.sources)

\* the adapter was called
Called == call.op = "get_posts_from_feeds"

\* the entry would yield a record in that call
Qualifies(e) ==
    /\ post_id_of(e) # <<>>
    /\ ~should_skip_post(store, TRUE, article_url_of(e), post_id_of(e), call.since_time,
                         parse_entry_date(e))

\* the returned list holds a record made of entry e of feed f
Returned(f, e) ==
    \E i \in DOMAIN call.res.posts :
        /\ call.res.posts[i].author_username = f
        /\ call.res.posts[i].metadata.entry_title = e.title

Filtered == call.op = "apply_content_filter"

\* the record's text contains the keyword, compared case-insensitively
Has(post, k) == Contains(ContentText(post), Lower(k))

\* the filter of the statement: every keyword of a configured list counts
KeptAsStated(post) ==
    /\ cfg.include = <<>> \/ \E k \in SeqToSet(cfg.include) : Has(post, k)
    /\ cfg.exclude = <<>> \/ \A k \in SeqToSet(cfg.exclude) : ~Has(post, k)

\* the same with the empty and the whitespace-only keywords left out
KeptNonBlank(post) ==
    /\ cfg.include = <<>> \/ \E k \in SeqToSet(cfg.include) : ~Blank(k) /\ Has(post, k)
    /\ cfg.exclude = <<>> \/ \A k \in SeqToSet(cfg.exclude) : Blank(k) \/ ~Has(post, k)

\* C12 as stated: the filter returns, in input order, exactly the records
\* whose text contains an include keyword (when an include list is configured)
\* and no exclude keyword (when an exclude list is configured).
C12_FilterKeepsExactlyMatching ==
    Filtered => /\ ~call.res.raised
                /\ call.res.posts = SelectSeq(call.posts, KeptAsStated)

\* C12 amended: the same, where the keywords that are empty or only whitespace
\* are ignored on both lists (a configured list of such keywords alone still
\* counts as configured).
C12_FilterIgnoresBlankKeywords ==
    Filtered => /\ ~call.res.raised
                /\ call.res.posts = SelectSeq(call.posts, KeptNonBlank)

\* both lists configured, one keyword in another case than the text, a blank
\* keyword on the exclude list: one record dropped by each list
C12_Witness ==
    /\ Filtered
    /\ cfg.include = <<<<"H">>>>
    /\ cfg.exclude = <<<<" ">>, <<"a">>>>
    /\ Len(call.posts) = 2
    /\ Len(call.res.posts) = 0
    /\ \E i \in DOMAIN call.posts : Has(call.posts[i], <<"H">>)

\* C13: in a run that returns, the upserts attempted are exactly the returned
\* (post-filter) records, one each and in list order, whether or not an earlier
\* upsert failed; the saved count is the number of upserts that succeeded, and
\* a record whose upsert failed is returned all the same.
C13_OneUpsertPerSurvivor ==
    (run.n > 0 /\ ~run.raised) =>
        /\ Len(run.upserts) = Len(run.posts)
        /\ \A i \in DOMAIN run.posts : run.upserts[i].id = run.posts[i].id
        /\ run.saved = Cardinality({i \in DOMAIN run.upserts : run.upserts[i].ok})

\* a run whose first upsert failed and whose second succeeded
C13_Witness ==
    /\ run.n > 0 /\ ~run.raised
    /\ Len(run.posts) >= 2
    /\ ~run.upserts[1].ok
    /\ run.upserts[2].ok
    /\ run.saved = 1

Authenticated == call.op = "authenticate"

\* the stored token of the call had expired
Expired == \E r \in call.before : r.service = "youtube" /\ r.expires_at < call.now

Count(seq, x) == Cardinality({i \in DOMAIN seq : seq[i] = x})

\* C14: an acquisition that finds the stored token expired makes exactly one
\* refresh attempt, first; when the refresh fails exactly one full
\* authentication follows it; failure is reported only after both, and there
\* are never more than two attempts.
C14_OneRefreshThenOneReauth ==
    (Authenticated /\ Expired) =>
        /\ Count(call.attempts, "refresh") = 1
        /\ call.attempts[1] = "refresh"
        /\ ~call.px.refresh => call.attempts = <<"refresh", "authenticate">>
        /\ ~call.ok => call.attempts = <<"refresh", "authenticate">>
        /\ Len(call.attempts) <= 2

\* an expired token, a refresh that fails and a full authentication that
\* succeeds and stores a token
C14_Witness ==
    /\ Authenticated /\ Expired
    /\ ~call.px.refresh
    /\ call.ok
    /\ call.attempts = <<"refresh", "authenticate">>
    /\ \E r \in tokens : r.expires_at > call.now

Recented == call.op = "get_recent_content"

\* C15: one get_recent_content run calls get_access_token at most once and
\* the forced authenticate at most once, the latter only after the former.
C15_OneAcquisitionPerRun ==
    Recented =>
        /\ Count(call.calls, "get_access_token") <= 1
        /\ Count(call.calls, "authenticate") <= 1
        /\ \A i \in DOMAIN call.calls :
               call.calls[i] = "authenticate" => i > 1 /\ call.calls[i - 1] = "get_access_token"

\* C16: a get_recent_content call whose authenticate fails (get_access_token
\* and the forced authenticate both raise) returns the empty list, raises
\* nothing, makes no listing request and leaves both stores as they were.
C16_NoTokenNoContent ==
    (Recented /\ ~call.authenticated) =>
        /\ call.posts = <<>>
        /\ ~call.raised
        /\ call.listings = 0
        /\ subs = call.subsBefore
        /\ store = {}

\* a call that found the stored token expired and met a refresh and a full
\* authentication that both failed
C16_Witness ==
    /\ Recented /\ ~call.authenticated
    /\ \E r \in call.before : r.expires_at < call.now
    /\ call.attempts = <<"refresh", "authenticate">>
    /\ call.posts = <<>>
    /\ call.listings = 0

\* the entries a call read, in parse order: feed by feed in the order of
\* feed_urls, entry by entry in the order served
Parsed ==
    Flatten([k \in DOMAIN call.feed_urls |->
                IF call.feed_urls[k] \in call.down THEN <<>>
                ELSE [i \in DOMAIN feeds[call.feed_urls[k]] |->
                         [feed |-> call.feed_urls[k], entry |-> feeds[call.feed_urls[k]][i]]]])

\* the returned record p was made of the parsed entry x
MadeOf(p, x) == p.author_username = x.feed /\ p.metadata.entry_title = x.entry.title

\* C17: the id of every returned record is the identifier of the entry it was
\* made of when the entry has one and its link otherwise, whatever the
\* position of the entry, the time of the call and the store; an entry with
\* neither yields no record, no store lookup and no scrape.
C17_IdIsGuidElseLink ==
    Called =>
        /\ \A i \in DOMAIN call.res.posts : \A k \in DOMAIN Parsed :
               MadeOf(call.res.posts[i], Parsed[k]) =>
                   /\ Parsed[k].entry.has_id \/ Parsed[k].entry.has_link
                   /\ call.res.posts[i].id = IF Parsed[k].entry.has_id THEN Parsed[k].entry.id
                                             ELSE Parsed[k].entry.link
        /\ \A i \in DOMAIN call.res.lookups : call.res.lookups[i].id # <<>>
        /\ \A i \in DOMAIN call.res.scrapes : call.res.scrapes[i].id # <<>>
        /\ Len(call.res.lookups) <=
               Cardinality({k \in DOMAIN Parsed :
                               Parsed[k].entry.has_id \/ Parsed[k].entry.has_link})

\* one call returns a record named by its GUID and one named by its link, and
\* reads an entry that has neither
C17_Witness ==
    /\ Called
    /\ \E i \in DOMAIN call.res.posts : call.res.posts[i].id = EntryG1.id
    /\ \E i \in DOMAIN call.res.posts : call.res.posts[i].id = EntryA1.link
    /\ \E k \in DOMAIN Parsed : Parsed[k].entry = EntryX1

Undated(e) == e.published = NoDate /\ e.updated = NoDate

\* C18: an entry without published and updated date that has an id or a link,
\* is not in the store and is no short-form video is returned, whatever
\* since_time is, and its created_at is the time of the call.
C18_UndatedEntryIsKept ==
    Called =>
        \A k \in DOMAIN Parsed :
            LET e == Parsed[k].entry
            IN  (/\ Undated(e)
                 /\ e.has_id \/ e.has_link
                 /\ ~Cached(store, TRUE, article_url_of(e), post_id_of(e))
                 /\ ~IsShorts(article_url_of(e)))
                => \E i \in DOMAIN call.res.posts :
                      /\ MadeOf(call.res.posts[i], Parsed[k])
                      /\ call.res.posts[i].created_at = call.now

\* an undated entry returned by a call whose since_time is later than the call
C18_Witness ==
    /\ Called
    /\ call.since_time > call.now
    /\ \E i \in DOMAIN call.res.posts :
          /\ call.res.posts[i].metadata.entry_title = EntryN1.title
          /\ call.res.posts[i].created_at = call.now

\* the records a are made of the parsed entries b, one by one in this order
InParseOrder(a, b) == Len(a) = Len(b) /\ \A i \in DOMAIN a : MadeOf(a[i], b[i])

\* the returned records of created_at t are the qualifying entries of that
\* date (the time of the call for an undated entry), in parse order
SameDate(t) ==
    LET P(p) == p.created_at = t
        Q(x) == /\ Qualifies(x.entry)
                /\ t = IF Undated(x.entry) THEN call.now ELSE parse_entry_date(x.entry)
    IN  InParseOrder(SelectSeq(call.res.posts, P), SelectSeq(Parsed, Q))

\* C19: the list one call returns holds every qualifying entry of every feed
\* that parsed and nothing else, newest first, and records of the same
\* created_at stand in parse order.
C19_MergedNewestFirst ==
    Called =>
        /\ \A k \in DOMAIN Parsed :
               Qualifies(Parsed[k].entry) => Returned(Parsed[k].feed, Parsed[k].entry)
        /\ \A i \in DOMAIN call.res.posts : \E k \in DOMAIN Parsed :
               MadeOf(call.res.posts[i], Parsed[k]) /\ Qualifies(Parsed[k].entry)
        /\ \A i \in 1..(Len(call.res.posts) - 1) :
               call.res.posts[i].created_at >= call.res.posts[i + 1].created_at
        /\ \A t \in 0..MaxTime : SameDate(t)

\* the feeds are read in the order f2, f1; the newest record comes from f1 and
\* is returned first, then two records of the same date in parse order
C19_Witness ==
    /\ Called
    /\ call.feed_urls = <<RSS_FEEDS[2], RSS_FEEDS[1]>>
    /\ Len(call.res.posts) = 3
    /\ call.res.posts[1].created_at > call.res.posts[2].created_at
    /\ call.res.posts[2].created_at = call.res.posts[3].created_at
    /\ call.res.posts[2].author_username = RSS_FEEDS[2]
    /\ call.res.posts[3].author_username = RSS_FEEDS[1]
    /\ call.res.posts[1].author_username = RSS_FEEDS[1]

Listed == call.op = "get_posts_since"

\* the row was created at or after the timestamp
AtOrAfter(r, since) == r.created_at > since.at \/ (r.created_at = since.at /\ since.us = 0)

\* the rows the query of the call is to return
Since == {r \in call.before : /\ AtOrAfter(r, call.since)
                               /\ call.source # "" => r.source = call.source}

\* C20: get_posts_since returns exactly the stored rows created at or after
\* the timestamp (of the source asked for, when one is), the newest first,
\* and leaves the store as it was.
C20_ListSinceIsExact ==
    Listed =>
        /\ {call.res[i].id : i \in DOMAIN call.res} = {r.id : r \in Since}
        /\ Len(call.res) = Cardinality(Since)
        /\ \A i \in 1..(Len(call.res) - 1) :
               call.res[i].created_at >= call.res[i + 1].created_at
        /\ store = call.before

\* the post the scrape pass made of the entry, before any transcript pass
Scraped ==
    process_rss_entry(enh.entry, RSS_FEEDS[1], SinceTime(clock, 0, cfg), clock, store, TRUE,
                      enh.page).post

\* the transcript API has a transcript for the video of the entry, and
\* transcripts are switched on
TranscriptExists ==
    /\ extract_video_id(article_url_of(enh.entry)) # None
    /\ get_video_transcript(extract_video_id(article_url_of(enh.entry)), enh.enabled,
                            enh.tx) # None

\* the body after one transcript pass: the body before it, the transcript
\* delimiter, the transcript
BodyHasTranscript ==
    enh.post[1].content = Scraped[1].content \o TranscriptDelim \o enh.tx

\* C21: after one transcript pass over a post whose video has a transcript,
\* metadata.youtube_transcript (the key the digest reads) is the transcript
\* and the body is the body before the pass, the delimiter and the transcript.
C21_TranscriptRecordedAndAppended ==
    (enh.passes = 2 /\ enh.post # <<>> /\ TranscriptExists) =>
        /\ enh.post[1].metadata.youtube_transcript = enh.tx
        /\ BodyHasTranscript

Got == call.op = "get_oauth_tokens"

ReadEntries ==
    UNION {{feeds[call.feed_urls[k]][i] : i \in DOMAIN feeds[call.feed_urls[k]]} :
             k \in {j \in DOMAIN call.feed_urls : call.feed_urls[j] \notin call.down}}

\* the store was asked for the URL of entry e
LookedUp(e) == \E i \in DOMAIN call.res.lookups : call.res.lookups[i].id = post_id_of(e)

\* a scrape request went to the URL of entry e
ScrapedUrl(e) == \E i \in DOMAIN call.res.scrapes : call.res.scrapes[i].url = article_url_of(e)

\* a record made of entry e is in the returned list
ReturnedEntry(e) == \E i \in DOMAIN call.res.posts : call.res.posts[i].metadata.entry_title = e.title

Dated(e) == parse_entry_date(e) # NoDate

YoutubeRun == run.n > 0 /\ Selects(run.sources, "youtube")

\* C24: in a run of YouTube ingestion no transcript is requested for a video
\* whose id the store holds, and no such video is in the returned list or is
\* upserted; so a second run over an unchanged channel feed, the first having
\* stored its videos, requests no transcript and upserts nothing.
C24_StoredVideoIsNotReenhanced ==
    YoutubeRun =>
        /\ \A i \in DOMAIN run.transcripts : ~run.transcripts[i].stored
        /\ \A i \in DOMAIN run.posts :
               run.posts[i].source = "youtube" => run.posts[i].id \notin StoredIds(run.before)
        /\ \A i \in DOMAIN run.upserts :
               run.upserts[i].id \in {post_id_of(e) : e \in SeqToSet(feeds[ChannelFeed])}
                   => run.upserts[i].id \notin StoredIds(run.before)

\* C25: an entry that makes _process_rss_entry raise keeps no other entry of
\* its feed from the returned list: every qualifying entry of every feed that
\* parsed is returned, those that follow a raising entry included.
C25_EntryFailureIsContained ==
    Called =>
        \A k \in DOMAIN call.feed_urls :
            LET f == call.feed_urls[k]
            IN  f \notin call.down =>
                    \A i \in DOMAIN feeds[f] :
                        (~date_raises(feeds[f][i]) /\ Qualifies(feeds[f][i]))
                            => Returned(f, feeds[f][i])

\* the returned list holds a record made of entry e of feed f whose body is
\* the body extracted from the entry
ReturnedAsExtracted(f, e) ==
    \E i \in DOMAIN call.res.posts :
        /\ call.res.posts[i].author_username = f
        /\ call.res.posts[i].metadata.entry_title = e.title
        /\ call.res.posts[i].content = extract_rss_content(e)

\* C26: when the scrape requests of a call fail the call still returns a
\* record for every qualifying entry of every feed, the later ones included,
\* and the body of each is the body extracted from the entry.
C26_ScrapeFailureIsSwallowed ==
    (Called /\ call.page = None) =>
        \A k \in DOMAIN call.feed_urls :
            \A i \in DOMAIN feeds[call.feed_urls[k]] :
                Qualifies(feeds[call.feed_urls[k]][i])
                    => ReturnedAsExtracted(call.feed_urls[k], feeds[call.feed_urls[k]][i])

\* three scrape requests failed in one call and three records came back
C26_Witness ==
    /\ Called
    /\ call.page = None
    /\ Len(call.res.scrapes) = 3
    /\ Len(call.res.posts) = 3
    /\ \E i \in DOMAIN call.res.posts : call.res.posts[i].content # <<>>

Listing == call.op = "get_subscriptions"

\* the subscriptions made of the items of the responses, in page order
AllItems ==
    Flatten([k \in 1..Len(call.responses) |->
               [i \in 1..Len(call.responses[k].items) |->
                  subscription_of(call.responses[k].items[i])]])

LastResponse == call.responses[Len(call.responses)]

\* C28: the first request of a listing carries no page token and each later
\* one the nextPageToken of the response before it; a request follows a
\* response exactly when that response carried a token; the listing returns
\* only after a response without a token, and then the items of all pages in
\* page order; when a request fails the listing raises and returns nothing.
C28_PagesFollowTokens ==
    Listing =>
        /\ Len(call.requests) = Len(call.responses)
        /\ call.requests # <<>> => call.requests[1] = NoPageToken
        /\ \A i \in 2..Len(call.requests) :
               /\ call.requests[i] = call.responses[i - 1].nextPageToken
               /\ call.requests[i] # NoPageToken
               /\ ~call.responses[i - 1].fails
        /\ call.pc = "returned" =>
               /\ call.responses # <<>>
               /\ ~LastResponse.fails
               /\ LastResponse.nextPageToken = NoPageToken
               /\ call.subscriptions = AllItems
        /\ call.pc = "raised" => call.responses = <<>> \/ LastResponse.fails
        /\ (call.pc = "loop" /\ call.responses # <<>>) =>
               ~LastResponse.fails /\ LastResponse.nextPageToken # NoPageToken

\* a listing of three pages returned the items of the first and of the third
\* page in that order
C28_Witness ==
    /\ Listing
    /\ call.pc = "returned"
    /\ Len(call.requests) = 3
    /\ call.subscriptions = <<subscription_of(ChannelId), subscription_of(<<"ch2">>)>>
    /\ call.responses[2].items = <<>>

\* followed from pageToken t, the responses of the API come within n requests
\* to one that fails or carries no nextPageToken
RECURSIVE Ends(_, _, _)
Ends(api, t, n) ==
    /\ n > 0
    /\ \/ api[t].fails
       \/ api[t].nextPageToken = NoPageToken
       \/ Ends(api, api[t].nextPageToken, n - 1)

\* the API of the listing has a last page or a failing one
HasEnd == Ends(call.api, NoPageToken, Cardinality(PageTokens) + 1)

Over == Listing /\ call.pc \in {"returned", "raised"}

\* C29: a listing whose API comes to a response without a token, or to a
\* failure, ends (returns or raises); a listing every response of which
\* carries a token is never left by the loop, which keeps requesting pages.
C29_LoopEndsIffSomePageIsLast ==
    /\ (Listing /\ HasEnd) ~> Over
    /\ []((Listing /\ ~HasEnd /\ call.requests # <<>>) => ~Over)

\* the third request of a listing failed and ended it
C29_Witness ==
    /\ Listing
    /\ HasEnd
    /\ call.pc = "raised"
    /\ Len(call.requests) = 3

\* the rows of the subscription table for channel_id
SubRowsOf(rows, channel_id) == {r \in rows : r.channel_id = channel_id}

ListedIds == {call.channels[i].channel_id : i \in DOMAIN call.channels}

WithoutMetadata(p) == "metadata" \notin p.keys \/ p.metadata.isNone

\* C32: a record whose latest save gave no metadata (the key missing, or
\* None) reads back with metadata the empty dict, from get_post_by and in
\* every list get_posts_since returns.
C32_NoMetadataReadsAsEmpty ==
    /\ \A p \in latest :
           (WithoutMetadata(p) /\ Found(store, p.id))
               => get_post_by(store, p.id).metadata = EmptyMeta
    /\ Listed =>
           \A i \in DOMAIN call.res :
               \A p \in latest :
                   (WithoutMetadata(p) /\ p.id = call.res[i].id)
                       => call.res[i].metadata = EmptyMeta

Saved == call.op = "save_post"

\* C33: a save_post call that fails (the database raises, or the record lacks
\* a required key) returns False and leaves the store as it was before the
\* call, the row of the same id and every other row included.
C33_FailedSaveChangesNothing ==
    Saved =>
        /\ ~(RequiredKeys \subseteq call.post.keys) => ~call.ok
        /\ ~call.ok => store = call.before

\* a record without content was saved over a stored id at a later time: False,
\* and the row is the old one
C33_Witness ==
    /\ Saved
    /\ ~call.ok
    /\ "content" \notin call.post.keys
    /\ \E r \in store : r.id = call.post.id /\ r.fetched_at < clock

\* the ingest before the latest one was interrupted by the user
Interrupted == call.op = "interrupted_ingest"

\* C34: when the user interrupts an ingest, no per-item work starts after the
\* interrupt, every record upserted before it is still in the store, and the
\* next run skips each of them: it neither scrapes nor upserts it again.
C34_InterruptKeepsUpsertedRecords ==
    Interrupted =>
        /\ Len(call.scrapes) + Len(call.upserts) <= call.at
        /\ \A i \in DOMAIN call.upserts :
               call.upserts[i].ok =>
                   /\ call.upserts[i].id \in StoredIds(store)
                   /\ run.n > 0 =>
                          /\ \A j \in DOMAIN run.scrapes : run.scrapes[j].id # call.upserts[i].id
                          /\ \A j \in DOMAIN run.upserts : run.upserts[j].id # call.upserts[i].id

\* extract_video_id was called on its own
Extracted == call.op = "extract_video_id"

\* the pieces of the URL that are one of the four YouTube shapes
Shapes(url) == {i \in DOMAIN url : \E k \in DOMAIN VideoPatterns : url[i] = VideoPatterns[k]}

\* C35: extract_video_id never raises; it returns no-match for an empty URL
\* and for a URL with none of the four shapes, the video id for a URL that
\* has one after one of the shapes, and the same on every call.
C35_ExtractVideoIdNeverRaises ==
    Extracted =>
        /\ ~call.raised
        /\ Shapes(call.url) = {} => call.res = None
        /\ \A i \in Shapes(call.url) :
               (i = 2 /\ i < Len(call.url) /\ call.url[i + 1] \in {"v1", "v2"})
                   => call.res = <<call.url[i + 1]>>
        /\ call.again = call.res

\* digest_url was the latest call
Digested == call.op = "digest_url"

\* C36: digest_url asks the store for the URL as an id first and by the url
\* field only when that finds nothing; when a record is found the digest is
\* built from it and no scrape or transcript request is made; a fresh fetch
\* happens only when both lookups find nothing; the store is never written.
C36_DigestUrlReadsTheCacheFirst ==
    Digested =>
        /\ call.res.lookups[1] = "id"
        /\ Len(call.res.lookups) = 2 <=> ~Found(call.before, call.url)
        /\ Len(call.res.lookups) = 2 => call.res.lookups[2] = "url"
        /\ call.res.hit <=> \E r \in call.before : r.id = call.url \/ r.url = call.url
        /\ call.res.hit => call.res.requests = <<>>
        /\ store = call.before

\* the run r fetched and enhanced the entry with this id and its filter
\* dropped the record made of it
DroppedIn(r, id) ==
    /\ r.n > 0 /\ r.sources = <<"rss">> /\ ~r.raised
    /\ \E i \in DOMAIN r.scrapes : r.scrapes[i].id = id
    /\ \A j \in DOMAIN r.posts : r.posts[j].id # id

\* an entry with this id is served and is not older than since_time
InWindow(id, since_time) ==
    \E e \in RssServed : post_id_of(e) = id /\ ~TooOld(since_time, parse_entry_date(e))

\* C37: a record the keyword filter drops is not upserted and is not in the
\* store after the run; the next run over the same feeds asks the store for
\* it, does not find it and scrapes it again, as long as it is inside the
\* window of that run.
C37_DroppedRecordIsFetchedAgain ==
    [][/\ \A i \in DOMAIN run'.scrapes :
              DroppedIn(run', run'.scrapes[i].id) =>
                  /\ \A j \in DOMAIN run'.upserts : run'.upserts[j].id # run'.scrapes[i].id
                  /\ run'.scrapes[i].id \notin StoredIds(store')
       /\ (run'.n = run.n + 1 /\ run'.sources = <<"rss">> /\ ~run'.raised) =>
              \A i \in DOMAIN run.scrapes :
                  (DroppedIn(run, run.scrapes[i].id)
                   /\ InWindow(run.scrapes[i].id, run'.since_time)) =>
                      /\ \E j \in DOMAIN run'.lookups : run'.lookups[j].id = run.scrapes[i].id
                      /\ \E j \in DOMAIN run'.scrapes :
                             /\ run'.scrapes[j].id = run.scrapes[i].id
                             /\ ~run'.scrapes[j].stored]_vars

\* a second run of the same sources over the same feeds, in which a record
\* is fetched and dropped by the filter as in the run before
C37_Witness ==
    /\ run.n = 2 /\ run.afterSame
    /\ cfg.include # <<>>
    /\ \E i \in DOMAIN run.scrapes : DroppedIn(run, run.scrapes[i].id)

\* every keyword of the list is empty or only whitespace
AllBlank(kws) == \A i \in DOMAIN kws : Blank(kws[i])

\* C38: blank keywords are ignored: a record that no exclude keyword other
\* than a blank one matches is not dropped by the exclude list, and an include
\* list that is configured but holds only blank keywords drops every record.
C38_BlankKeywordsAreIgnored ==
    Filtered =>
        /\ (cfg.include # <<>> /\ AllBlank(cfg.include)) => call.res.posts = <<>>
        /\ \A i \in DOMAIN call.posts :
               (/\ cfg.include = <<>> \/ \E k \in SeqToSet(cfg.include) :
                                             ~Blank(k) /\ Has(call.posts[i], k)
                /\ \A k \in SeqToSet(cfg.exclude) : Blank(k) \/ ~Has(call.posts[i], k))
                   => \E j \in DOMAIN call.res.posts : call.res.posts[j] = call.posts[i]

\* an include list of two blank keywords, each contained in the text of the
\* records, and no exclude list: both records are dropped
C38_Witness ==
    /\ Filtered
    /\ cfg.include = <<<<" ">>, <<>>>>
    /\ cfg.exclude = <<>>
    /\ Len(call.posts) = 2
    /\ \A i \in DOMAIN call.posts : Has(call.posts[i], <<" ">>)
    /\ call.res.posts = <<>>

\* the place of the source of post p in the list of names gone through
PlaceOf(p) ==
    CHOOSE i \in DOMAIN Selected(run.sources) : Selected(run.sources)[i] = p.source

\* C39: ingest goes through the names in list order and returns the records
\* of each source in that order; a name that is neither 'rss' nor 'youtube'
\* contributes nothing, raises nothing and does not stop the names after it;
\* no list means 'rss' then 'youtube'.
C39_SourcesInListOrder ==
    run.n > 0 =>
        /\ ~run.raised
        /\ run.done = Selected(run.sources)
        /\ run.sources = <<>> => run.done = <<"rss", "youtube">>
        /\ \A i \in DOMAIN run.posts :
               \E k \in DOMAIN run.done : run.done[k] = run.posts[i].source
        /\ \A i, j \in DOMAIN run.posts : i < j => PlaceOf(run.posts[i]) <= PlaceOf(run.posts[j])

====
